---- MODULE Spec2Model ----
(***************************************************************************)
(* Feederr: a bridge between Unit3D tracker sites and *arr media managers. *)
(* The module models the Session Manager (app/auth.py), the scraper search *)
(* calls (app/scrapers/unit3d.py), the session scheduler                   *)
(* (app/session_scheduler.py), the Torznab endpoint (app/api/torznab.py)   *)
(* and the title parsers of app/models.py.                                 *)
(***************************************************************************)
EXTENDS Integers, Sequences, FiniteSets, TLC

(***************************************************************************)
(* Bounds of the model and constants of the program.                       *)
(***************************************************************************)
\* settings.session_refresh_hours, in hours
session_refresh_hours == 24
SecondsPerHour == 3600
SecondsPerMinute == 60
SecondsPerDay == 86400
\* "HH:MM" as the second of the day
HM(h, m) == h * SecondsPerHour + m * SecondsPerMinute
\* Python's None where a number is expected
None == -1
\* the wall clock (seconds since midnight of the day the process started) is
\* observed every ClockStep seconds by the Session Manager and the endpoint
ClockStep == 43200
\* the last second their clock reaches
MaxTime == 90000

Sites == {"torrentland", "xbytesv2"}
Tasks == {"t1", "t2"}
NoTask == "none"

VARIABLES
    \* ---- Session Manager (AuthManager) ----
    sessions,       \* self.sessions: site -> [authenticated, expires]
    cookie_files,   \* /app/cookies/<site>_cookies.json: site -> cookie jar
    lock,           \* self._lock: the task holding it, or NoTask
    now,            \* datetime.now(), in seconds
    config,         \* indexer_config._config: site -> [enabled, complete]
    pc,             \* task -> position in the running coroutine
    op,             \* task -> the top-level operation the task is running
    call,           \* task -> the Session Manager call in progress
    site,           \* task -> the indexer argument of the operation
    cret,           \* task -> result of the login of the call in progress
    ret,            \* task -> result of the finished top-level operation
    ensHist,        \* tracked site -> its last two ensure_session calls since delete_cookies
    \* ---- scraper search calls ----
    srch,           \* task -> fetches, renewals and open resources of its search
    \* ---- SessionScheduler ----
    scheduled_times, \* self.scheduled_times: site -> time of day
    running,        \* self.running
    loop,           \* the loop task: its position, or "none" when there is none
    tasks,          \* the loop tasks created so far: "live" or "over"
    stopping,       \* stop(): "no", or where its await of the loop task stands
    current_minute, \* _check_and_renew: the minute read at its start
    pending,        \* _check_and_renew: the entries still to be visited
    renewed,        \* site -> refresh_session calls made by the scheduler
    \* ---- Torznab endpoint ----
    request,        \* the parameters of the request being handled, or the last one
    response,       \* the response to it, NoResponse while it is pending
    scraper,        \* the scraper whose search the endpoint awaits, or "none"
    found,          \* the torrents that search returned
    \* ---- title parsers ----
    title,          \* the title of a torrent
    parsed,         \* what the parsers returned for it
    \* ---- scraper helpers ----
    arg,            \* the argument a helper of the scrapers is called with
    out,            \* what it returned, NotCalled before the call
    \* ---- the shared browser ----
    browser,        \* self.browser: the task whose launch made it, or "none"
    launched        \* the launches of the browser engine, by task, in order

authVars == <<sessions, cookie_files, lock, now, config, pc, op, call, site, cret, ret, ensHist>>
schedVars == <<scheduled_times, running, loop, tasks, stopping, current_minute, pending, renewed>>
apiVars == <<request, response, scraper, found>>
titleVars == <<title, parsed>>
helperVars == <<arg, out>>
browserVars == <<browser, launched>>
vars == <<authVars, srch, schedVars, apiVars, titleVars, helperVars, browserVars>>
\* what the Session Manager and the scrapers leave alone
notAuth == <<schedVars, apiVars, titleVars, helperVars, browserVars>>


(***************************************************************************)
(* Dictionaries: functions whose domain is the set of keys present.        *)
(***************************************************************************)
Put(d, k, v) == [x \in DOMAIN d \cup {k} |-> IF x = k THEN v ELSE d[x]]
Del(d, k) == [x \in DOMAIN d \ {k} |-> d[x]]

(***************************************************************************)
(* AuthManager (src/app/auth.py)                                           *)
(***************************************************************************)
\* the session record written by a successful login or cookie load
NewSession == [authenticated |-> TRUE, expires |-> now + session_refresh_hours * SecondsPerHour]

\* ensure_session without a usable cached session: the cache is never used
SessionUsable_NeverCached(s) == FALSE

\* ensure_session, lines 209-214: the cached session is used only when it is
\* authenticated and datetime.now() < expires
SessionUsable(s) ==
    /\ s \in DOMAIN sessions
    /\ sessions[s].authenticated
    /\ now < sessions[s].expires

\* an ensure_session that never looks at the cookie file
HasCookies_Ignored(s) == FALSE

\* _load_cookies: is there a jar in the cookie file
HasCookies(s) == s \in DOMAIN cookie_files

\* check_session_status: reports the stored flag and expiry as they are
check_session_status(s) ==
    IF s \in DOMAIN sessions
    THEN [authenticated |-> sessions[s].authenticated, expires |-> sessions[s].expires]
    ELSE [authenticated |-> FALSE, expires |-> 0]

\* _perform_login lines 167-178: the site is configured with url, username
\* and password
HasCredentials(s) == IF s \in (DOMAIN config) THEN config[s].complete ELSE FALSE

NoSearch == [fetches |-> 0, renewals |-> 0, open |-> 0, renewed |-> "none",
             openAtRenew |-> 0, detected |-> FALSE, exc |-> FALSE]

\* a search without the outer handler: the exception reaches the caller
search_propagates(outcome) == IF outcome = "exception" THEN "raised" ELSE outcome

\* search, lines 350 / 522-524 and 612 / 745-747: the body of a search runs
\* inside try / except Exception: an exception raised anywhere in it is
\* logged and the search returns []
search_returns(outcome) == IF outcome = "exception" THEN "empty" ELSE outcome

\* a search that retries whatever the renewal returned
retry_always(renewal_success) == TRUE

\* lines 411-413 and 670-672: the fetch is retried when the renewal returned True
retry_allowed(renewal_success) == renewal_success = "true"

\* the search of task t ends: with its parsed rows, with [] or by an exception
EndSearch(t, outcome, s) ==
    /\ pc' = [pc EXCEPT ![t] = "done"]
    /\ ret' = [ret EXCEPT ![t] = search_returns(outcome)]
    /\ srch' = [srch EXCEPT ![t] = [s EXCEPT !.exc = (outcome = "exception")]]

\* The Session Manager call of task t returns r and its caller goes on, up to
\* the caller's next suspension point.
\*  - a top-level call: the operation is finished with r;
\*  - ensure_session inside _get_client_with_cookies (lines 166-204): an
\*    exception, or no cookies to load, is an exception of the search;
\*    otherwise the HTTP client is built and the request is sent;
\*  - refresh_session inside a search (lines 410-423, 669-678): False returns
\*    [], an exception is an exception of the search, True starts the retry.
Resume(t, r) ==
    IF op[t] \in {"ensure", "refresh", "validate"}
    THEN /\ pc' = [pc EXCEPT ![t] = "done"]
         /\ ret' = [ret EXCEPT ![t] = r]
         /\ call' = [call EXCEPT ![t] = "none"]
         /\ UNCHANGED srch
    ELSE IF call[t] = "ensure"
    THEN IF r = "raised" \/ ~HasCookies(site[t])
         THEN /\ EndSearch(t, "exception", srch[t])
              /\ call' = [call EXCEPT ![t] = "none"]
         ELSE /\ pc' = [pc EXCEPT ![t] = "s_fetch"]
              /\ srch' = [srch EXCEPT ![t].open = @ + 1]
              /\ call' = [call EXCEPT ![t] = "none"]
              /\ UNCHANGED ret
    ELSE IF ~retry_allowed(r)
    THEN /\ EndSearch(t, IF r = "raised" THEN "exception" ELSE "empty",
                      [srch[t] EXCEPT !.renewed = r])
         /\ call' = [call EXCEPT ![t] = "none"]
    ELSE /\ srch' = [srch EXCEPT ![t].renewed = r]
         /\ UNCHANGED ret
         /\ IF op[t] = "search_xb"
            THEN /\ pc' = [pc EXCEPT ![t] = "ens_wait"]
                 /\ call' = [call EXCEPT ![t] = "ensure"]
            ELSE /\ pc' = [pc EXCEPT ![t] = "s_open"]
                 /\ call' = [call EXCEPT ![t] = "none"]

Last2(q) == IF Len(q) > 2 THEN SubSeq(q, Len(q) - 1, Len(q)) ELSE q

\* An ensure_session call on a tracked site goes on record when it has taken
\* its path (cached session, persisted cookies or login): the time of the
\* check, whether it returned True and the expiry of the session it left.
Record(s, path, ok, exp) ==
    ensHist' = IF s \in (DOMAIN ensHist)
               THEN [ensHist EXCEPT ![s] =
                       Last2(Append(@, [path |-> path, ok |-> ok, at |-> now, exp |-> exp]))]
               ELSE ensHist

\* the login of the recorded ensure_session call returned r
RecordResult(s, r) ==
    ensHist' = IF s \in (DOMAIN ensHist) /\ ensHist[s] # <<>>
               THEN [ensHist EXCEPT ![s][Len(ensHist[s])] =
                       [@ EXCEPT !.ok = (r = "true"),
                                 !.exp = IF s \in (DOMAIN sessions)
                                         THEN sessions[s].expires ELSE 0]]
               ELSE ensHist

StartEnsure(t, s) ==
    /\ pc[t] = "idle"
    /\ pc' = [pc EXCEPT ![t] = "ens_wait"]
    /\ op' = [op EXCEPT ![t] = "ensure"]
    /\ call' = [call EXCEPT ![t] = "ensure"]
    /\ site' = [site EXCEPT ![t] = s]
    /\ UNCHANGED <<sessions, cookie_files, lock, now, config, cret, ret, ensHist, srch>>
    /\ UNCHANGED notAuth

StartRefresh(t, s) ==
    /\ pc[t] = "idle"
    /\ pc' = [pc EXCEPT ![t] = "ref_wait"]
    /\ op' = [op EXCEPT ![t] = "refresh"]
    /\ call' = [call EXCEPT ![t] = "refresh"]
    /\ site' = [site EXCEPT ![t] = s]
    /\ UNCHANGED <<sessions, cookie_files, lock, now, config, cret, ret, ensHist, srch>>
    /\ UNCHANGED notAuth

\* validate_credentials takes no lock: it goes straight to the browser
StartValidate(t, s) ==
    /\ pc[t] = "idle"
    /\ pc' = [pc EXCEPT ![t] = "login"]
    /\ op' = [op EXCEPT ![t] = "validate"]
    /\ call' = [call EXCEPT ![t] = "validate"]
    /\ site' = [site EXCEPT ![t] = s]
    /\ UNCHANGED <<sessions, cookie_files, lock, now, config, cret, ret, ensHist, srch>>
    /\ UNCHANGED notAuth

\* ensure_session, lines 207-231, up to the first suspension point
EnsureLocked(t) ==
    /\ pc[t] = "ens_wait"
    /\ lock = NoTask
    /\ LET s == site[t] IN
       IF SessionUsable(s)
       THEN /\ Resume(t, "true")
            /\ Record(s, "cached", TRUE, sessions[s].expires)
            /\ UNCHANGED <<sessions, lock>>
       ELSE IF HasCookies(s)
       THEN /\ sessions' = Put(sessions, s, NewSession)
            /\ Resume(t, "true")
            /\ Record(s, "cookies", TRUE, NewSession.expires)
            /\ UNCHANGED lock
       ELSE /\ lock' = t
            /\ pc' = [pc EXCEPT ![t] = "login"]
            /\ Record(s, "login", FALSE, 0)
            /\ UNCHANGED <<sessions, ret, call, srch>>
    /\ UNCHANGED <<cookie_files, now, config, op, site, cret>>
    /\ UNCHANGED notAuth

\* a refresh_session that trusts a session that is still fresh
RefreshLocked_UsesCache(t) ==
    /\ pc[t] = "ref_wait"
    /\ lock = NoTask
    /\ IF SessionUsable(site[t])
       THEN /\ Resume(t, "true")
            /\ UNCHANGED lock
       ELSE /\ lock' = t
            /\ pc' = [pc EXCEPT ![t] = "login"]
            /\ UNCHANGED <<ret, call, srch>>
    /\ UNCHANGED <<sessions, cookie_files, now, config, op, site, cret, ensHist>>
    /\ UNCHANGED notAuth

\* refresh_session, lines 249-251: always _perform_login, under the lock
RefreshLocked(t) ==
    /\ pc[t] = "ref_wait"
    /\ lock = NoTask
    /\ lock' = t
    /\ pc' = [pc EXCEPT ![t] = "login"]
    /\ UNCHANGED <<sessions, cookie_files, now, config, op, call, site, cret, ret, ensHist, srch>>
    /\ UNCHANGED notAuth

\* a call that ends without releasing the lock
EndCall_KeepsLock(t, r) ==
    /\ Resume(t, r)
    /\ UNCHANGED lock
    /\ IF call[t] = "ensure"
       THEN RecordResult(site[t], r)
       ELSE UNCHANGED ensHist

\* the call ends with result r: "async with" releases the lock, an
\* ensure_session call goes on record, and the caller goes on
EndCall(t, r) ==
    /\ Resume(t, r)
    /\ lock' = IF lock = t THEN NoTask ELSE lock
    /\ IF call[t] = "ensure"
       THEN RecordResult(site[t], r)
       ELSE UNCHANGED ensHist

\* _perform_login lines 162-163 / validate_credentials lines 131-132: the
\* browser and a fresh context are obtained before the try block, so a
\* failure there is raised to the caller
BrowserFails(t) ==
    /\ pc[t] = "login"
    /\ EndCall(t, "raised")
    /\ UNCHANGED <<sessions, cookie_files, now, config, op, site, cret>>
    /\ UNCHANGED notAuth

\* _perform_login lines 167-178: the site is missing from the configuration
\* or its credentials are incomplete: False
NotConfigured(t) ==
    /\ pc[t] = "login"
    /\ call[t] # "validate"
    /\ ~HasCredentials(site[t])
    /\ pc' = [pc EXCEPT ![t] = "closing"]
    /\ cret' = [cret EXCEPT ![t] = "false"]
    /\ UNCHANGED <<sessions, cookie_files, lock, now, config, op, call, site, ret, ensHist, srch>>
    /\ UNCHANGED notAuth

\* _perform_login lines 167-181: the credentials are read from the
\* configuration (validate_credentials has them as arguments) and the page
\* is opened; the task then awaits _login_generic
ReadCredentials(t) ==
    /\ pc[t] = "login"
    /\ call[t] = "validate" \/ HasCredentials(site[t])
    /\ pc' = [pc EXCEPT ![t] = "form"]
    /\ UNCHANGED <<sessions, cookie_files, lock, now, config, op, call, site, cret, ret, ensHist, srch>>
    /\ UNCHANGED notAuth

\* a login that forgets the session of the site when it fails
LoginGeneric_ForgetsOnFailure(t, success, saved) ==
    /\ pc[t] = "form"
    /\ LET s == site[t] IN
       IF success
       THEN /\ cookie_files' = IF saved THEN Put(cookie_files, s, [site |-> s, by |-> t])
                               ELSE cookie_files
            /\ sessions' = Put(sessions, s, NewSession)
            /\ cret' = [cret EXCEPT ![t] = "true"]
       ELSE /\ cret' = [cret EXCEPT ![t] = "false"]
            /\ sessions' = Del(sessions, s)
            /\ UNCHANGED cookie_files
    /\ pc' = [pc EXCEPT ![t] = "closing"]
    /\ UNCHANGED <<lock, now, config, op, call, site, ret, ensHist, srch>>
    /\ UNCHANGED notAuth

\* _login_generic returns (lines 181-197, 136-152). On success the cookies of
\* the context are written by _save_cookies (a failed write is logged and
\* ignored) and the session is recorded.
LoginGeneric(t, success, saved) ==
    /\ pc[t] = "form"
    /\ LET s == site[t] IN
       IF success
       THEN /\ cookie_files' = IF saved THEN Put(cookie_files, s, [site |-> s, by |-> t])
                               ELSE cookie_files
            /\ sessions' = Put(sessions, s, NewSession)
            /\ cret' = [cret EXCEPT ![t] = "true"]
       ELSE /\ cret' = [cret EXCEPT ![t] = "false"]
            /\ UNCHANGED <<cookie_files, sessions>>
    /\ pc' = [pc EXCEPT ![t] = "closing"]
    /\ UNCHANGED <<lock, now, config, op, call, site, ret, ensHist, srch>>
    /\ UNCHANGED notAuth

\* finally: await context.close(), then the call returns
CloseContext(t) ==
    /\ pc[t] = "closing"
    /\ EndCall(t, cret[t])
    /\ cret' = [cret EXCEPT ![t] = "none"]
    /\ UNCHANGED <<sessions, cookie_files, now, config, op, site>>
    /\ UNCHANGED notAuth

\* stop() cancels the task that runs refresh_session (session_scheduler.py
\* line 102): the CancelledError is raised where the call awaits, whether for
\* the lock, in the browser or in context.close(); "except Exception" does
\* not catch it, the finally block and "async with" run, and the call ends
\* by raising it. (In an await that a bare except of _login_generic encloses
\* the error is swallowed and nothing changes.)
CancelCall(t) ==
    /\ op[t] = "refresh"
    /\ pc[t] \in {"ref_wait", "login", "form", "closing"}
    /\ EndCall(t, "cancelled")
    /\ cret' = [cret EXCEPT ![t] = "none"]
    /\ UNCHANGED <<sessions, cookie_files, now, config, op, site>>
    /\ UNCHANGED notAuth

\* delete_cookies: a synchronous call, it takes no lock
delete_cookies(s) ==
    /\ IF s \in DOMAIN cookie_files
       THEN /\ cookie_files' = Del(cookie_files, s)
            /\ sessions' = Del(sessions, s)
       ELSE UNCHANGED <<cookie_files, sessions>>
    /\ ensHist' = IF s \in (DOMAIN ensHist) THEN [ensHist EXCEPT ![s] = <<>>] ELSE ensHist
    /\ UNCHANGED <<lock, now, config, pc, op, call, site, cret, ret, srch>>
    /\ UNCHANGED notAuth

\* the caller takes the result; the task is free again
Collect(t) ==
    /\ pc[t] = "done"
    /\ pc' = [pc EXCEPT ![t] = "idle"]
    /\ op' = [op EXCEPT ![t] = "none"]
    /\ site' = [site EXCEPT ![t] = "none"]
    /\ ret' = [ret EXCEPT ![t] = "none"]
    /\ srch' = [srch EXCEPT ![t] = NoSearch]
    /\ UNCHANGED <<sessions, cookie_files, lock, now, config, call, cret, ensHist>>
    /\ UNCHANGED notAuth

\* time passes
Advance ==
    /\ now + ClockStep <= MaxTime
    /\ now' = now + ClockStep
    /\ UNCHANGED <<sessions, cookie_files, lock, config, pc, op, call, site, cret, ret, ensHist, srch>>
    /\ UNCHANGED notAuth

\* the scheduler is not part of the run
SchedulerOff ==
    /\ scheduled_times = <<>>
    /\ running = FALSE
    /\ loop = "none"
    /\ tasks = <<>>
    /\ stopping = "no"
    /\ current_minute = [hour |-> 0, minute |-> 0, second |-> 0]
    /\ pending = <<>>
    /\ renewed = [s \in Sites |-> 0]

\* no call of the Session Manager or of a scraper is in progress
NoCalls ==
    /\ pc = [t \in Tasks |-> "idle"]
    /\ op = [t \in Tasks |-> "none"]
    /\ call = [t \in Tasks |-> "none"]
    /\ site = [t \in Tasks |-> "none"]
    /\ cret = [t \in Tasks |-> "none"]
    /\ ret = [t \in Tasks |-> "none"]
    /\ srch = [t \in Tasks |-> NoSearch]

\* no request has reached the endpoint
NoRequest ==
    [indexer |-> "none", t |-> "none", cat |-> <<>>, season |-> None,
     ep |-> None, apikey |-> "none"]
NoResponse ==
    [status |-> 0, via |-> "none", torrents |-> <<>>, items |-> <<>>,
     categories |-> <<>>]
ApiOff ==
    /\ request = NoRequest
    /\ response = NoResponse
    /\ scraper = "none"
    /\ found = <<>>

\* nothing parsed yet
NotParsed == [season_episode |-> <<None, None>>, season_only |-> None, done |-> FALSE]
\* the title parsers are not part of the run
TitlesOff ==
    /\ title = <<>>
    /\ parsed = NotParsed

\* no helper of the scrapers has been called
NotCalled == [called |-> FALSE]
Returned(value) == [called |-> TRUE, value |-> value]
HelpersOff ==
    /\ arg = <<>>
    /\ out = NotCalled

\* AuthManager.__init__: self.browser = None, nothing launched
BrowserOff ==
    /\ browser = NoTask
    /\ launched = <<>>

\* create_indexer: enabled, with the time restrictions switched off
FullConfig ==
    [s \in Sites |->
        [enabled |-> TRUE, complete |-> TRUE,
         time_restrictions |->
            [enabled |-> FALSE, start_time |-> HM(10, 0), end_time |-> HM(23, 59)]]]
\* a jar left by an earlier run of the process
OldJar(s) == [site |-> s, by |-> "earlier"]

InitAuth ==
    /\ sessions = <<>>
    /\ cookie_files \in {<<>>, [s \in {"xbytesv2"} |-> OldJar(s)]}
    /\ lock = NoTask
    /\ now = 0
    /\ config \in {FullConfig, Del(FullConfig, "torrentland"),
                   [FullConfig EXCEPT !["xbytesv2"].complete = FALSE]}
    /\ NoCalls
    /\ SchedulerOff
    /\ ApiOff
    /\ TitlesOff
    /\ HelpersOff
    /\ BrowserOff

\* the steps of the Session Manager's calls, whoever started them
AuthSteps ==
    \/ \E t \in Tasks : EnsureLocked(t)
    \/ \E t \in Tasks : RefreshLocked(t)
    \/ \E t \in Tasks : BrowserFails(t)
    \/ \E t \in Tasks : NotConfigured(t)
    \/ \E t \in Tasks : ReadCredentials(t)
    \/ \E t \in Tasks, success \in BOOLEAN, saved \in BOOLEAN : LoginGeneric(t, success, saved)
    \/ \E t \in Tasks : CloseContext(t)
    \/ \E t \in Tasks : Collect(t)

(***************************************************************************)
(* Spec: the Session Manager under concurrent callers.                     *)
(***************************************************************************)
Init ==
    /\ InitAuth
    /\ ensHist = <<>>

Next ==
    \/ \E t \in Tasks, s \in Sites : StartEnsure(t, s)
    \/ \E t \in Tasks, s \in Sites : StartRefresh(t, s)
    \/ \E t \in Tasks, s \in Sites : StartValidate(t, s)
    \/ AuthSteps
    \/ \E s \in Sites : delete_cookies(s)
    \/ Advance

Spec == Init /\ [][Next]_vars

(***************************************************************************)
(* SpecSeq: one caller issuing the Session Manager's calls one after the   *)
(* other; the ensure_session calls of one site, any of them, are on record.*)
(***************************************************************************)
Caller == "t1"

InitSeq ==
    /\ InitAuth
    /\ \E x \in Sites : ensHist = [s \in {x} |-> <<>>]

NextSeq ==
    \/ \E s \in Sites : StartEnsure(Caller, s)
    \/ \E s \in Sites : StartRefresh(Caller, s)
    \/ \E s \in Sites : StartValidate(Caller, s)
    \/ AuthSteps
    \/ \E s \in Sites : delete_cookies(s)
    \/ Advance

SpecSeq == InitSeq /\ [][NextSeq]_vars

(***************************************************************************)
(* SpecLock: the Session Manager under concurrent callers, one of which    *)
(* may be cancelled in a renewal.  Every login attempt that has begun goes *)
(* on to its end (weak fairness of the steps of _perform_login), and a     *)
(* task that waits for the lock gets it once it has been free often        *)
(* enough: asyncio.Lock wakes its waiters in the order of their arrival    *)
(* (strong fairness of the two acquisitions).                              *)
(***************************************************************************)
SpecLock ==
    /\ Init
    /\ [][\/ \E t \in Tasks, s \in Sites : StartEnsure(t, s)
          \/ \E t \in Tasks, s \in Sites : StartRefresh(t, s)
          \/ AuthSteps
          \/ \E t \in Tasks : CancelCall(t)
          \/ \E s \in Sites : delete_cookies(s)
          \/ Advance]_vars
    /\ \A t \in Tasks :
          /\ SF_vars(EnsureLocked(t))
          /\ SF_vars(RefreshLocked(t))
          /\ WF_vars(BrowserFails(t) \/ NotConfigured(t) \/ ReadCredentials(t))
          /\ WF_vars(\E success \in BOOLEAN, saved \in BOOLEAN : LoginGeneric(t, success, saved))
          /\ WF_vars(CloseContext(t))

(***************************************************************************)
(* Scraper search calls (src/app/scrapers/unit3d.py)                       *)
(***************************************************************************)
\* TorrentlandScraper.search: the name of the scraper is "torrentland"
StartSearchTL(t) ==
    /\ pc[t] = "idle"
    /\ pc' = [pc EXCEPT ![t] = "s_open"]
    /\ op' = [op EXCEPT ![t] = "search_tl"]
    /\ site' = [site EXCEPT ![t] = "torrentland"]
    /\ UNCHANGED <<sessions, cookie_files, lock, now, config, call, cret, ret, ensHist, srch>>
    /\ UNCHANGED notAuth

\* XBytesV2Scraper.search: the name of the scraper is "xbytesv2"; the search
\* starts with _get_client_with_cookies, that is get_cookies, that is
\* ensure_session
StartSearchXB(t) ==
    /\ pc[t] = "idle"
    /\ pc' = [pc EXCEPT ![t] = "ens_wait"]
    /\ op' = [op EXCEPT ![t] = "search_xb"]
    /\ call' = [call EXCEPT ![t] = "ensure"]
    /\ site' = [site EXCEPT ![t] = "xbytesv2"]
    /\ UNCHANGED <<sessions, cookie_files, lock, now, config, cret, ret, ensHist, srch>>
    /\ UNCHANGED notAuth

\* Torrentland, lines 383-393 and 418-422: the browser, a context with the
\* persisted cookies and a page. "nocontext": the browser or new_context
\* raised; "nopage": new_page raised, the context is open. In the retry this
\* is inside the inner try, whose finally closes page and context.
OpenPage(t, outcome) ==
    /\ pc[t] = "s_open"
    /\ outcome \in {"ok", "nocontext", "nopage"}
    /\ LET s == srch[t] IN
       CASE outcome = "ok" ->
              /\ pc' = [pc EXCEPT ![t] = "s_fetch"]
              /\ srch' = [srch EXCEPT ![t].open = 1]
              /\ UNCHANGED ret
         [] outcome = "nocontext" ->
              EndSearch(t, "exception", s)
         [] outcome = "nopage" ->
              EndSearch(t, "exception", [s EXCEPT !.open = IF s.renewals = 0 THEN 1 ELSE 0])
    /\ UNCHANGED <<sessions, cookie_files, lock, now, config, op, call, site, cret, ensHist>>
    /\ UNCHANGED notAuth

\* is_login_page(url, html), or for the HTTP variant status 401 / 403
session_expired(variant, outcome) ==
    \/ outcome = "login"
    \/ variant = "search_xb" /\ outcome = "auth"

\* what the fetch of a variant can answer: a results page, a page without
\* results table, the login page, 401/403, another HTTP error status, or an
\* exception (navigation timeout, connection error)
FetchOutcomes == {"page", "notable", "login", "auth", "httperr", "error"}

\* the resources of the search left open by lines 406-407 (page.close(),
\* context.close()) and line 666 (client.aclose()) before the renewal
closed_before_renewal(open) == 0

\* How a fetch that is not followed by a renewal ends the search.
\* Torrentland (lines 427-520): an exception of page.goto is re-raised, a page
\* without table.modern-data-table returns [], the finally closes page and
\* context. xBytesV2 (lines 681-743): an exception of client.get and an HTTP
\* error status (raise_for_status) are re-raised before client.aclose().
AfterFetch(variant, outcome, s) ==
    IF variant = "search_tl"
    THEN [end |-> CASE outcome = "error" -> "exception"
                    [] outcome = "page" -> "rows"
                    [] OTHER -> "empty",
          open |-> 0]
    ELSE [end |-> IF outcome \in {"error", "auth", "httperr"} THEN "exception" ELSE "rows",
          open |-> IF outcome \in {"error", "auth", "httperr"} THEN s.open ELSE 0]

\* page.goto (lines 396, 423) / client.get (lines 657, 678) answers. The
\* login-page check is made on the first fetch only.
Fetch(t, outcome) ==
    /\ pc[t] = "s_fetch"
    /\ outcome \in FetchOutcomes
    /\ LET s == [srch[t] EXCEPT !.fetches = @ + 1] IN
       IF s.renewals = 0 /\ session_expired(op[t], outcome)
       THEN /\ srch' = [srch EXCEPT ![t] =
                          [s EXCEPT !.detected = TRUE,
                                    !.open = closed_before_renewal(s.open),
                                    !.openAtRenew = closed_before_renewal(s.open),
                                    !.renewals = @ + 1]]
            /\ pc' = [pc EXCEPT ![t] = "ref_wait"]
            /\ call' = [call EXCEPT ![t] = "refresh"]
            /\ UNCHANGED ret
       ELSE /\ EndSearch(t, AfterFetch(op[t], outcome, s).end,
                         [s EXCEPT !.open = AfterFetch(op[t], outcome, s).open])
            /\ UNCHANGED call
    /\ UNCHANGED <<sessions, cookie_files, lock, now, config, op, site, cret, ensHist>>
    /\ UNCHANGED notAuth

(***************************************************************************)
(* SpecSearch: one task runs searches of the two scraper variants while    *)
(* another one renews sessions, cookies are deleted and time passes.       *)
(***************************************************************************)
Searcher == "t1"
Renewer == "t2"

InitSearch ==
    /\ InitAuth
    /\ ensHist = <<>>

NextSearch ==
    \/ StartSearchTL(Searcher)
    \/ StartSearchXB(Searcher)
    \/ \E outcome \in {"ok", "nocontext", "nopage"} : OpenPage(Searcher, outcome)
    \/ \E outcome \in FetchOutcomes : Fetch(Searcher, outcome)
    \/ \E s \in Sites : StartRefresh(Renewer, s)
    \/ AuthSteps
    \/ \E s \in Sites : delete_cookies(s)
    \/ Advance

SpecSearch == InitSearch /\ [][NextSearch]_vars

(***************************************************************************)
(* SessionScheduler (src/app/session_scheduler.py)                         *)
(***************************************************************************)
\* _generate_random_time: hour = 8
RenewalHour == 8
\* _scheduler_loop: await asyncio.sleep(30)
SleepSeconds == 30
\* random.randint(0, 59) of the minute and of the second, cut to 0..Max
MaxMinute == 1
MaxSecond == 0
\* a sleep ends up to MaxLag seconds late
MaxLag == 0
\* how long a call of refresh_session takes, in seconds; the longest is the
\* timeout of page.goto on the login page (auth.py line 61, 60000 ms)
RenewDurations == {10, 60}
\* how long before the renewal hour the process starts, in seconds
StartsBefore == {20}
\* the owner of the Session Manager's lock while the scheduler renews
SchedulerTask == "scheduler"
\* the order in which the dictionaries hold the sites
SiteOrder == <<"torrentland", "xbytesv2">>

WindowStart == RenewalHour * SecondsPerHour
\* the end of the last minute a renewal can be scheduled in
SchedEnd == WindowStart + (MaxMinute + 1) * SecondsPerMinute

\* datetime.now().time()
TimeOfDay(at) ==
    LET sec == at % SecondsPerDay IN
    [hour |-> sec \div SecondsPerHour,
     minute |-> (sec % SecondsPerHour) \div SecondsPerMinute,
     second |-> sec % SecondsPerMinute]

\* time.replace(second=0, microsecond=0)
replace_second(tm) == [tm EXCEPT !.second = 0]

\* _generate_random_time with a random hour as well
RandomTimes_AnyHour ==
    [hour : {RenewalHour, RenewalHour + 1}, minute : 0..MaxMinute, second : 0..MaxSecond]

\* _generate_random_time: the times it can return
RandomTimes ==
    [hour : {RenewalHour}, minute : 0..MaxMinute, second : 0..MaxSecond]

\* self.scheduled_times.items(), in the order of the dictionary
Items(d) == SelectSeq(SiteOrder, LAMBDA s : s \in (DOMAIN d))

\* _check_and_renew without the lookups of lines 50-59: every entry whose
\* minute is the current one is renewed
due_ignores_config(s, minute_now, times) ==
    minute_now = replace_second(times[s])

\* _check_and_renew lines 47-59: the entry of site s is renewed when its
\* minute is the current one and the site is still configured and enabled
due(s, minute_now, times) ==
    /\ minute_now = replace_second(times[s])
    /\ IF s \in (DOMAIN config) THEN config[s].enabled ELSE FALSE

\* the for loop of _check_and_renew runs to its next await: the entries that
\* are not due are passed over
RECURSIVE NextDue(_, _, _)
NextDue(entries, minute_now, times) ==
    IF entries = <<>> THEN <<>>
    ELSE IF due(Head(entries), minute_now, times) THEN entries
    ELSE NextDue(Tail(entries), minute_now, times)

\* the loop goes on over the entries: it calls refresh_session for the first
\* one that is due, which takes the lock, or ends the pass and sleeps
Visit(entries, minute_now, times) ==
    LET rest == NextDue(entries, minute_now, times) IN
    /\ pending' = rest
    /\ IF rest = <<>>
       THEN /\ loop' = "sleeping"
            /\ lock' = NoTask
            /\ UNCHANGED renewed
       ELSE /\ loop' = "renewing"
            /\ lock' = SchedulerTask
            /\ renewed' = [renewed EXCEPT ![Head(rest)] = @ + 1]

\* what the scheduler leaves alone
notSched == <<pc, op, call, site, cret, ret, ensHist, srch, apiVars, titleVars, helperVars, browserVars>>

\* how many loop tasks a run creates at most
MaxStarts == 2

\* the local now of _check_and_renew, before the first pass of a loop task
NoMinute == [hour |-> 0, minute |-> 0, second |-> 0]

\* the loop task is over: its locals are gone, the lock it held in
\* refresh_session is released, and the stop() that awaits it returns
TaskOver(how) ==
    /\ loop' = how
    /\ tasks' = [i \in 1..Len(tasks) |-> "over"]
    /\ stopping' = "no"
    /\ lock' = NoTask
    /\ pending' = <<>>
    /\ current_minute' = NoMinute

\* start() without the test of self.running: every call creates a task
start_always ==
    /\ stopping = "no"
    /\ Len(tasks) < MaxStarts
    /\ running' = TRUE
    /\ loop' = "tick"
    /\ tasks' = Append(tasks, "live")
    /\ UNCHANGED <<scheduled_times, stopping, current_minute, pending, renewed>>
    /\ UNCHANGED <<sessions, cookie_files, lock, now, config>>
    /\ UNCHANGED notSched

\* start(): creates the loop task unless the scheduler is running; its
\* caller (the lifespan of the application, main.py) makes its calls of
\* start() and stop() one after the other
start ==
    /\ stopping = "no"
    /\ IF ~running
       THEN /\ Len(tasks) < MaxStarts
            /\ running' = TRUE
            /\ loop' = "tick"
            /\ tasks' = Append(tasks, "live")
       ELSE UNCHANGED <<running, loop, tasks>>
    /\ UNCHANGED <<scheduled_times, stopping, current_minute, pending, renewed>>
    /\ UNCHANGED <<sessions, cookie_files, lock, now, config>>
    /\ UNCHANGED notSched

\* one pass of the while loop up to its first await: _schedule_indexers
\* gives a random time to every site that has none, _check_and_renew reads
\* the clock once and visits the entries
Tick ==
    /\ loop = "tick"
    /\ running
    /\ \E times \in [(DOMAIN config) \ (DOMAIN scheduled_times) -> RandomTimes] :
          scheduled_times' = [s \in (DOMAIN config) \cup (DOMAIN scheduled_times) |->
                                 IF s \in (DOMAIN scheduled_times)
                                 THEN scheduled_times[s] ELSE times[s]]
    /\ current_minute' = replace_second(TimeOfDay(now))
    /\ Visit(Items(scheduled_times'), current_minute', scheduled_times')
    /\ UNCHANGED <<running, tasks, stopping, sessions, cookie_files, now, config>>
    /\ UNCHANGED notSched

\* refresh_session ends after d seconds: a successful login records the
\* session and writes the jar, a failed or raising one changes nothing, the
\* lock is released; then the for loop goes on with the minute read at the
\* start of the pass
RenewEnd(outcome, d) ==
    /\ loop = "renewing"
    /\ stopping # "cancelling"
    /\ LET s == Head(pending) IN
       /\ outcome = "true" => HasCredentials(s)
       /\ now' = now + d
       /\ IF outcome = "true"
          THEN /\ sessions' = Put(sessions, s,
                                  [authenticated |-> TRUE,
                                   expires |-> now' + session_refresh_hours * SecondsPerHour])
               /\ cookie_files' = Put(cookie_files, s, [site |-> s, by |-> SchedulerTask])
          ELSE UNCHANGED <<sessions, cookie_files>>
    /\ Visit(Tail(pending), current_minute, scheduled_times)
    /\ UNCHANGED <<scheduled_times, running, tasks, stopping, current_minute, config>>
    /\ UNCHANGED notSched

\* asyncio.sleep(30) ends and the while loop tests self.running: the next
\* pass begins, or the loop ends because stop() was called meanwhile
Wake(lag) ==
    /\ loop = "sleeping"
    /\ stopping # "cancelling"
    /\ now < SchedEnd
    /\ now' = now + SleepSeconds + lag
    /\ IF running
       THEN /\ loop' = "tick"
            /\ UNCHANGED <<tasks, stopping, lock, current_minute, pending>>
       ELSE TaskOver("ended")
    /\ UNCHANGED <<scheduled_times, running, renewed>>
    /\ UNCHANGED <<sessions, cookie_files, config>>
    /\ UNCHANGED notSched

\* stop(): when the scheduler is running, clears the flag, cancels the loop
\* task and awaits it
stop ==
    /\ stopping = "no"
    /\ IF running
       THEN /\ running' = FALSE
            /\ stopping' = "cancelling"
       ELSE UNCHANGED <<running, stopping>>
    /\ UNCHANGED <<scheduled_times, loop, tasks, current_minute, pending, renewed>>
    /\ UNCHANGED <<sessions, cookie_files, lock, now, config>>
    /\ UNCHANGED notSched

\* the CancelledError is raised in the loop task where it awaits and ends
\* it; the await of stop() catches it and stop() returns
Cancelled ==
    /\ stopping = "cancelling"
    /\ TaskOver("cancelled")
    /\ UNCHANGED <<scheduled_times, running, renewed>>
    /\ UNCHANGED <<sessions, cookie_files, now, config>>
    /\ UNCHANGED notSched

\* the CancelledError is raised in an await of _login_generic that a bare
\* except encloses (auth.py lines 74-80 and 87-93): the login goes on, and
\* the loop task with it until the while loop next tests self.running
Swallowed ==
    /\ stopping = "cancelling"
    /\ loop = "renewing"
    /\ stopping' = "waiting"
    /\ UNCHANGED <<scheduled_times, running, loop, tasks, current_minute, pending, renewed>>
    /\ UNCHANGED <<sessions, cookie_files, lock, now, config>>
    /\ UNCHANGED notSched

\* create_indexer(s, ...), from the web interface
create_indexer(s) ==
    /\ s \notin (DOMAIN config)
    /\ config' = Put(config, s, FullConfig[s])
    /\ UNCHANGED schedVars
    /\ UNCHANGED <<sessions, cookie_files, lock, now>>
    /\ UNCHANGED notSched

\* update_indexer(s, {"enabled": enabled}), from the web interface
update_indexer(s, enabled) ==
    /\ s \in DOMAIN config
    /\ config' = [config EXCEPT ![s].enabled = enabled]
    /\ UNCHANGED schedVars
    /\ UNCHANGED <<sessions, cookie_files, lock, now>>
    /\ UNCHANGED notSched

\* delete_indexer(s), from the web interface
delete_indexer(s) ==
    /\ s \in DOMAIN config
    /\ config' = Del(config, s)
    /\ UNCHANGED schedVars
    /\ UNCHANGED <<sessions, cookie_files, lock, now>>
    /\ UNCHANGED notSched

(***************************************************************************)
(* SpecSched: the scheduler from the start of the process, shortly before  *)
(* the renewal hour, to the end of the last minute a renewal can fall in.  *)
(***************************************************************************)
InitSched ==
    /\ sessions = <<>>
    /\ cookie_files = <<>>
    /\ lock = NoTask
    /\ \E b \in StartsBefore : now = WindowStart - b
    /\ config \in {FullConfig, [FullConfig EXCEPT !["xbytesv2"].complete = FALSE]}
    /\ NoCalls
    /\ ensHist = <<>>
    /\ SchedulerOff
    /\ ApiOff
    /\ TitlesOff
    /\ HelpersOff
    /\ BrowserOff

NextSched ==
    \/ start
    \/ Tick
    \/ \E outcome \in {"true", "false", "raised"}, d \in RenewDurations : RenewEnd(outcome, d)
    \/ \E lag \in 0..MaxLag : Wake(lag)
    \/ \E s \in Sites : create_indexer(s)
    \/ \E s \in Sites, enabled \in BOOLEAN : update_indexer(s, enabled)
    \/ \E s \in Sites : delete_indexer(s)

SpecSched == InitSched /\ [][NextSched]_vars

(***************************************************************************)
(* SpecLife: the calls of start() and stop() on the scheduler, made one    *)
(* after the other while the loop runs with a fixed configuration.         *)
(***************************************************************************)
InitLife ==
    /\ InitSched
    /\ config = FullConfig

NextLife ==
    \/ start
    \/ stop
    \/ Cancelled
    \/ Swallowed
    \/ Tick
    \/ \E outcome \in {"true", "false", "raised"}, d \in RenewDurations : RenewEnd(outcome, d)
    \/ \E lag \in 0..MaxLag : Wake(lag)

SpecLife == InitLife /\ [][NextLife]_vars

(***************************************************************************)
(* Title parsers of Torrent (src/app/models.py).  A title is a sequence of *)
(* lexemes: single characters, and the words the patterns name.            *)
(***************************************************************************)
\* the longest title made of every combination of TitleChars
MaxTitleLen == 5
TitleChars == {"S", "E", "x", "/", "0", "1", " "}

DigitChars == <<"0", "1", "2", "3", "4", "5", "6", "7", "8", "9">>
\* \d
IsDigit(c) == \E i \in 1..10 : DigitChars[i] = c
\* int() of one digit
DigitVal(c) == (CHOOSE i \in 1..10 : DigitChars[i] = c) - 1

\* str.upper(), lexeme by lexeme
upper(c) ==
    CASE c = "x" -> "X"
      [] c = "Season" -> "SEASON"
      [] c = "Episode" -> "EPISODE"
      [] c = "Temporada" -> "TEMPORADA"
      [] c = "temporada" -> "TEMPORADA"
      [] c = "Capitulo" -> "CAPITULO"
      [] c = "Primera" -> "PRIMERA"
      [] c = "Segunda" -> "SEGUNDA"
      [] c = "Complete" -> "COMPLETE"
      [] OTHER -> c
title_upper(t) == [i \in 1..Len(t) |-> upper(t[i])]

\* the lexeme at position i, "" past either end
At(u, i) == IF i >= 1 /\ i <= Len(u) THEN u[i] ELSE ""

\* the regular expressions, element by element: a literal lexeme, NUM for
\* (\d{1,2}), WS for [\s]+, NOT_E_DIGIT for (?:[^E\d]|$)
EpisodePatterns ==
    << <<"/", "S", "NUM", "/", "E", "NUM", "/">>,
       <<"S", "NUM", "E", "NUM">>,
       <<"NUM", "X", "NUM">>,
       <<"SEASON", "WS", "NUM", "WS", "EPISODE", "WS", "NUM">>,
       <<"TEMPORADA", "WS", "NUM", "WS", "CAPITULO", "WS", "NUM">> >>
SeasonPatterns ==
    << <<"/", "S", "NUM", "/">>,
       <<"S", "NUM", "NOT_E_DIGIT">>,
       <<"SEASON", "WS", "NUM">>,
       <<"TEMPORADA", "WS", "NUM">> >>
\* the keys of the ordinals dictionary of parse_season_only, in its order
Ordinals == <<"PRIMERA", "SEGUNDA", "TERCERA", "CUARTA", "QUINTA",
              "SEXTA", "SEPTIMA", "OCTAVA", "NOVENA", "DECIMA">>

\* no match
Fail == <<None>>

\* [^E\d] on a lexeme: its first character is neither E nor a digit
not_E_digit(c) == ~IsDigit(c) /\ c \notin {"E", "EPISODE"}

\* the groups of a match of pat[j..] at position i of u, or Fail: greedy
\* quantifiers that give back what the rest of the pattern needs
RECURSIVE Match(_, _, _, _)
Match(u, i, pat, j) ==
    IF j > Len(pat) THEN <<>>
    ELSE
      LET c == At(u, i) IN
      CASE pat[j] = "NUM" ->
             LET two == IF IsDigit(c) /\ IsDigit(At(u, i + 1))
                        THEN Match(u, i + 2, pat, j + 1) ELSE Fail
                 one == IF IsDigit(c) THEN Match(u, i + 1, pat, j + 1) ELSE Fail
             IN  IF two # Fail
                 THEN <<10 * DigitVal(c) + DigitVal(At(u, i + 1))>> \o two
                 ELSE IF one # Fail THEN <<DigitVal(c)>> \o one
                 ELSE Fail
        [] pat[j] = "WS" ->
             IF c # " " THEN Fail
             ELSE LET more == Match(u, i + 1, pat, j) IN
                  IF more # Fail THEN more ELSE Match(u, i + 1, pat, j + 1)
        [] pat[j] = "NOT_E_DIGIT" ->
             IF i > Len(u) THEN Match(u, i, pat, j + 1)
             ELSE IF not_E_digit(c) THEN Match(u, i + 1, pat, j + 1)
             ELSE Fail
        [] OTHER ->
             IF c = pat[j] THEN Match(u, i + 1, pat, j + 1) ELSE Fail

\* re.search from position i on: the match at the leftmost position that
\* has one
RECURSIVE search_from(_, _, _)
search_from(pat, u, i) ==
    IF i > Len(u) THEN Fail
    ELSE LET m == Match(u, i, pat, 1) IN
         IF m # Fail THEN m ELSE search_from(pat, u, i + 1)

\* re.search
search(pat, u) == search_from(pat, u, 1)

\* for pattern in patterns: the match of the first pattern, in order, that
\* matches
RECURSIVE first_match(_, _)
first_match(pats, u) ==
    IF pats = <<>> THEN Fail
    ELSE LET m == search(Head(pats), u) IN
         IF m # Fail THEN m ELSE first_match(Tail(pats), u)

\* Torrent.parse_season_episode
parse_season_episode(t) ==
    LET m == first_match(EpisodePatterns, title_upper(t)) IN
    IF m = Fail THEN <<None, None>> ELSE <<m[1], m[2]>>

\* f'{ordinal} TEMPORADA' in title_upper
has_ordinal(k, u) ==
    \E i \in 1..Len(u) :
        u[i] = Ordinals[k] /\ At(u, i + 1) = " " /\ At(u, i + 2) = "TEMPORADA"

\* Torrent.parse_season_only
parse_season_only(t) ==
    LET u == title_upper(t)
        ords == {k \in 1..Len(Ordinals) : has_ordinal(k, u)}
        m == first_match(SeasonPatterns, u)
    IN  IF ords # {} THEN CHOOSE k \in ords : \A n \in ords : k <= n
        ELSE IF m = Fail THEN None
        ELSE m[1]

\* the titles of the releases the parsers are applied to: every sequence of
\* TitleChars up to MaxTitleLen, and some longer ones
ReleaseTitles ==
    { <<"S", "0", "1", "E", "0", "3">>,
      <<"S", "0", "1", "E", "1", "0", "0">>,
      <<"/", "S", "0", "1", "/", "E", "0", "3", "/">>,
      <<"/", "S", "0", "1", "/">>,
      <<"S", "0", "1", " ", "Complete">>,
      <<"S", "0", "1", " ", "1", "9", "2", "0", "x", "1", "0", "8", "0">>,
      <<"Season", " ", "1", " ", "Episode", " ", "1", "0">>,
      <<"Temporada", " ", "1", " ", "Capitulo", " ", "2">>,
      <<"Temporada", " ", "1">>,
      <<"Season", " ", "1", "1">>,
      <<"Primera", " ", "Temporada">>,
      <<"Segunda", " ", "temporada", " ", "Complete">> }
TitleInputs ==
    UNION {[1..n -> TitleChars] : n \in 0..MaxTitleLen} \cup ReleaseTitles

\* the two parsers are applied to the title
ParseTitle ==
    /\ ~parsed.done
    /\ parsed' = [season_episode |-> parse_season_episode(title),
                  season_only |-> parse_season_only(title),
                  done |-> TRUE]
    /\ UNCHANGED title
    /\ UNCHANGED <<authVars, srch, schedVars, apiVars, helperVars, browserVars>>

(***************************************************************************)
(* Torznab endpoint (src/app/api/torznab.py) and IndexerConfig             *)
(* (src/app/indexer_config.py)                                             *)
(***************************************************************************)
\* the longest list a scraper returns
MaxResults == 2
\* settings.api_key
ApiKey == "key"
\* the cat parameter is a string, here its parts between commas; NoCat when
\* the parameter is absent, <<"">> the empty string
NoCat == <<>>
Cats == {NoCat, <<"">>, <<"5040", "2000">>}
SearchTypes == {"search", "tvsearch", "movie"}
\* the requests the endpoint receives
Requests ==
    [indexer : Sites \cup {"unknown"},
     t : SearchTypes \cup {"caps", "rss"},
     cat : Cats,
     season : {None, 1},
     ep : {None, 1},
     apikey : {ApiKey, "wrong"}]

\* IndexerConfig.is_enabled
is_enabled(s) == IF s \in (DOMAIN config) THEN config[s].enabled ELSE FALSE

\* IndexerConfig.is_within_time_restrictions; a time that strptime cannot
\* parse is None here, and the exception it raises means allowed
is_within_time_restrictions(s) ==
    IF s \notin (DOMAIN config) THEN FALSE
    ELSE LET tr == config[s].time_restrictions
             clock == now % SecondsPerDay
         IN  IF ~tr.enabled THEN TRUE
             ELSE IF tr.start_time = None \/ tr.end_time = None THEN TRUE
             ELSE IF tr.start_time <= tr.end_time
             THEN tr.start_time <= clock /\ clock <= tr.end_time
             ELSE clock >= tr.start_time \/ clock <= tr.end_time

\* a can_search that looks at the enabled flag only
can_search_ignores_window(s) == is_enabled(s)

\* IndexerConfig.can_search
can_search(s) == is_enabled(s) /\ is_within_time_restrictions(s)

\* a placeholder whose category ignores the request
create_fake_torrent_fixed_category(indexer, category) ==
    [title |-> <<"[INFO]">>, guid |-> <<indexer, "disabled", "info">>,
     indexer |-> indexer, size |-> 1024, seeders |-> 0, leechers |-> 0,
     download_url |-> <<"feederr", "api", "v1", "status">>,
     category |-> "2000"]

\* create_fake_torrent: the guid is here its parts between hyphens
create_fake_torrent(indexer, category) ==
    [title |-> <<"[INFO]">>, guid |-> <<indexer, "disabled", "info">>,
     indexer |-> indexer, size |-> 1024, seeders |-> 0, leechers |-> 0,
     download_url |-> <<"feederr", "api", "v1", "status">>,
     category |-> IF category # NoCat /\ category # <<"">> THEN category[1] ELSE "2000"]

\* create_torznab_xml: the item of one torrent (guid, link, size, seeders,
\* peers, category and the season / episode attributes; -1 for no attribute)
item_of(torrent) ==
    LET se == parse_season_episode(torrent.title) IN
    [guid |-> torrent.guid,
     link |-> <<"feederr", "api", "v1", "download", torrent.indexer,
                torrent.guid[Len(torrent.guid)]>>,
     enclosure |-> <<"feederr", "api", "v1", "download", torrent.indexer,
                     torrent.guid[Len(torrent.guid)]>>,
     size |-> torrent.size,
     seeders |-> torrent.seeders,
     peers |-> torrent.seeders + torrent.leechers,
     category |-> torrent.category,
     season |-> IF se[1] # None /\ se[2] # None THEN se[1]
                ELSE IF se[1] = None THEN parse_season_only(torrent.title)
                ELSE None,
     episode |-> IF se[1] # None /\ se[2] # None THEN se[2] ELSE None]

\* create_torznab_xml and the Response around it
create_torznab_xml(torrents, via) ==
    [status |-> 200, via |-> via, torrents |-> torrents,
     items |-> [i \in 1..Len(torrents) |-> item_of(torrents[i])],
     categories |-> <<>>]

\* create_caps_xml and the Response around it
create_caps_xml ==
    [status |-> 200, via |-> "caps", torrents |-> <<>>, items |-> <<>>,
     categories |-> <<"2000", "5000", "5030", "5040", "5050", "2030", "2040", "2050">>]

\* raise HTTPException(status_code=code)
HTTPException(code) ==
    [status |-> code, via |-> "error", torrents |-> <<>>, items |-> <<>>,
     categories |-> <<>>]

\* an endpoint that tests can_search before it looks at the action
torznab_branch_search_check_first(r) ==
    IF r.apikey # ApiKey THEN "401"
    ELSE IF r.indexer \notin (DOMAIN config) THEN "404"
    ELSE IF ~can_search(r.indexer) THEN "placeholder"
    ELSE IF r.t = "caps" THEN "caps"
    ELSE IF r.t \in SearchTypes THEN "search"
    ELSE "400"

\* an endpoint that looks the indexer up before it tests the API key
torznab_branch_indexer_first(r) ==
    IF r.indexer \notin (DOMAIN config) THEN "404"
    ELSE IF r.apikey # ApiKey THEN "401"
    ELSE IF r.t = "caps" THEN "caps"
    ELSE IF r.t \in SearchTypes
    THEN IF ~can_search(r.indexer) THEN "placeholder" ELSE "search"
    ELSE "400"

\* torznab_api lines 255-279, 350: the order of its tests
torznab_branch(r) ==
    IF r.apikey # ApiKey THEN "401"
    ELSE IF r.indexer \notin (DOMAIN config) THEN "404"
    ELSE IF r.t = "caps" THEN "caps"
    ELSE IF r.t \in SearchTypes
    THEN IF ~can_search(r.indexer) THEN "placeholder" ELSE "search"
    ELSE "400"

\* torznab_api lines 293-299: the scraper of the indexer
scraper_of(indexer) ==
    IF indexer = "torrentland" THEN "TorrentlandScraper" ELSE "XBytesV2Scraper"

\* a filter that keeps every torrent of the season when no episode is asked
RECURSIVE season_filter_keeps_episodes(_, _, _)
season_filter_keeps_episodes(torrents, season, ep) ==
    IF torrents = <<>> THEN <<>>
    ELSE LET torrent == Head(torrents)
             se == parse_season_episode(torrent.title)
             torrent_season == IF se[1] = None
                               THEN parse_season_only(torrent.title) ELSE se[1]
             keep == /\ torrent_season = season
                     /\ IF ep # None THEN se[2] = ep ELSE TRUE
             rest == season_filter_keeps_episodes(Tail(torrents), season, ep)
         IN  IF keep THEN <<torrent>> \o rest ELSE rest

\* torznab_api lines 306-340: the loop over the torrents of the scraper
RECURSIVE season_filter(_, _, _)
season_filter(torrents, season, ep) ==
    IF torrents = <<>> THEN <<>>
    ELSE LET torrent == Head(torrents)
             se == parse_season_episode(torrent.title)
             torrent_episode == se[2]
             torrent_season == IF se[1] = None
                               THEN parse_season_only(torrent.title) ELSE se[1]
             is_season_pack == se[1] = None /\ torrent_season # None
             keep == /\ torrent_season = season
                     /\ IF ep # None THEN torrent_episode = ep ELSE is_season_pack
             rest == season_filter(Tail(torrents), season, ep)
         IN  IF keep THEN <<torrent>> \o rest ELSE rest

\* the titles of the torrents a scraper finds
FoundTitles ==
    { <<"S", "1", "E", "1">>, <<"1", "x", "0">>, <<"S", "1">>, <<"S", "0">> }
TorrentIds == <<"101", "102", "103", "104">>
\* the k-th torrent of a result list
FoundTorrent(indexer, t, k) ==
    [title |-> t, guid |-> <<indexer, TorrentIds[k]>>, indexer |-> indexer,
     download_url |-> <<indexer, "torrents", "download", TorrentIds[k]>>,
     size |-> 2048, seeders |-> 5, leechers |-> 2, category |-> "5000"]
\* the lists a scraper can return
FoundLists(indexer) ==
    UNION {{[k \in 1..n |-> FoundTorrent(indexer, ts[k], k)] : ts \in [1..n -> FoundTitles]}
           : n \in 0..MaxResults}

\* torznab_api up to its first await: the request is answered at once
\* unless it is a search on a site that can search
torznab_api(r) ==
    /\ request = NoRequest
    /\ request' = r
    /\ found' = <<>>
    /\ LET branch == torznab_branch(r) IN
       /\ response' =
            CASE branch = "401" -> HTTPException(401)
              [] branch = "404" -> HTTPException(404)
              [] branch = "400" -> HTTPException(400)
              [] branch = "caps" -> create_caps_xml
              [] branch = "placeholder" ->
                   create_torznab_xml(<<create_fake_torrent(r.indexer, r.cat)>>, "placeholder")
              [] OTHER -> NoResponse
       /\ scraper' = IF branch = "search" THEN scraper_of(r.indexer) ELSE "none"
    /\ UNCHANGED <<authVars, srch, schedVars, titleVars, helperVars, browserVars>>

\* scraper.search returns its torrents, having logged in or not; the season
\* filter is applied to a search or tvsearch with a season and the feed is
\* built
SearchDone(torrents, login) ==
    /\ scraper # "none"
    /\ found' = torrents
    /\ login => ~SessionUsable(request.indexer)
    /\ sessions' = IF login THEN Put(sessions, request.indexer, NewSession) ELSE sessions
    /\ response' =
         create_torznab_xml(
            IF request.season # None /\ request.t \in {"tvsearch", "search"}
            THEN season_filter(torrents, request.season, request.ep)
            ELSE torrents,
            "search")
    /\ scraper' = "none"
    /\ UNCHANGED request
    /\ UNCHANGED <<cookie_files, lock, now, config, pc, op, call, site, cret, ret, ensHist, srch>>
    /\ UNCHANGED <<schedVars, titleVars, helperVars, browserVars>>

\* the client has the response; the endpoint takes the next request
Reply ==
    /\ response # NoResponse
    /\ request' = NoRequest
    /\ response' = NoResponse
    /\ found' = <<>>
    /\ UNCHANGED scraper
    /\ UNCHANGED <<authVars, srch, schedVars, titleVars, helperVars, browserVars>>

(***************************************************************************)
(* SpecTitles: the title parsers applied to one title.                     *)
(***************************************************************************)
InitTitles ==
    /\ sessions = <<>>
    /\ cookie_files = <<>>
    /\ lock = NoTask
    /\ now = 0
    /\ config = FullConfig
    /\ NoCalls
    /\ ensHist = <<>>
    /\ SchedulerOff
    /\ ApiOff
    /\ title \in TitleInputs
    /\ parsed = NotParsed
    /\ HelpersOff
    /\ BrowserOff

NextTitles == ParseTitle

SpecTitles == InitTitles /\ [][NextTitles]_vars

(***************************************************************************)
(* SpecApi: requests to the Torznab endpoint, one at a time, under each of *)
(* the configurations of ApiConfigs at midnight and at noon.               *)
(***************************************************************************)
\* an indexer missing, an indexer disabled, the time restrictions of
\* create_indexer switched on, a window across midnight, and a start time
\* that cannot be parsed
ApiConfigs ==
    { FullConfig,
      Del(FullConfig, "torrentland"),
      [FullConfig EXCEPT !["xbytesv2"].enabled = FALSE],
      [FullConfig EXCEPT !["xbytesv2"].time_restrictions.enabled = TRUE],
      [FullConfig EXCEPT !["torrentland"].time_restrictions =
           [enabled |-> TRUE, start_time |-> HM(22, 0), end_time |-> HM(6, 0)]],
      [FullConfig EXCEPT !["torrentland"].time_restrictions =
           [enabled |-> TRUE, start_time |-> None, end_time |-> HM(6, 0)]] }
\* the times of day of the requests: midnight and noon
ApiClocks == {0, HM(12, 0)}

InitApi ==
    /\ sessions = <<>>
    /\ cookie_files = <<>>
    /\ lock = NoTask
    /\ now \in ApiClocks
    /\ config \in ApiConfigs
    /\ NoCalls
    /\ ensHist = <<>>
    /\ SchedulerOff
    /\ ApiOff
    /\ TitlesOff
    /\ HelpersOff
    /\ BrowserOff

NextApi ==
    \/ \E r \in Requests : torznab_api(r)
    \/ \E torrents \in FoundLists(request.indexer), login \in BOOLEAN :
          SearchDone(torrents, login)
    \/ Reply

SpecApi == InitApi /\ [][NextApi]_vars

(***************************************************************************)
(* SpecQuery: the query a scraper sends to its site for the parameters of  *)
(* a search request (torznab.py 281-291, unit3d.py 354-376 and 618-640).   *)
(* A string is the sequence of its lexemes; None and "" are both <<>>.     *)
(***************************************************************************)
\* the parameters of a search request: q, the three ids and cat, for either
\* scraper; an id and a text that hold '&' and '=' are among them
QueryArgs ==
    [scraper : {"TorrentlandScraper", "XBytesV2Scraper"},
     q : {<<>>, <<"x">>, <<"x", "&", "y">>},
     tmdbid : {<<>>, <<"6">>, <<"6", "&", "name", "=", "x">>},
     imdbid : {<<>>, <<"6">>, <<"tt", "6">>, <<"tt">>},
     tvdbid : {<<>>, <<"6">>},
     cat : Cats]

\* torznab_api lines 281-291: the free text is dropped when an id is given
SearchRequest(a) ==
    [query |-> IF a.tmdbid # <<>> \/ a.imdbid # <<>> \/ a.tvdbid # <<>>
               THEN <<>> ELSE a.q,
     category |-> a.cat, imdb_id |-> a.imdbid, tvdb_id |-> a.tvdbid,
     tmdb_id |-> a.tmdbid]

\* lines 361-363 and 627-630: imdb_id.replace('tt', '') if it starts with 'tt'
imdb_clean(v) == IF Head(v) = "tt" THEN SelectSeq(v, LAMBDA c : c # "tt") ELSE v

\* lines 358-367 and 624-635: the if / elif chain over the ids and the text
search_key(req) ==
    IF req.tmdb_id # <<>>
    THEN <<[key |-> <<"tmdbId">>, value |-> req.tmdb_id]>>
    ELSE IF req.imdb_id # <<>>
    THEN <<[key |-> <<"imdbId">>, value |-> imdb_clean(req.imdb_id)]>>
    ELSE IF req.tvdb_id # <<>>
    THEN <<[key |-> <<"tvdbId">>, value |-> req.tvdb_id]>>
    ELSE IF req.query # <<>>
    THEN <<[key |-> <<"name">>, value |-> req.query]>>
    ELSE <<>>

\* _map_torznab_categories: the set of native codes of the codes of cat. The
\* elif of '5070' is never reached: '5070' starts with '5'.
map_torznab_categories(cats) ==
    LET starts_with(cat, digit) ==
            CASE digit = "2" -> cat \in {"2000", "2030", "2040", "2050", "2060"}
              [] digit = "5" -> cat \in {"5000", "5030", "5040", "5050", "5070"}
              [] OTHER -> FALSE
        xbytes_cats ==
            {"1" : i \in {i \in DOMAIN cats : starts_with(cats[i], "2")}}
            \cup {"2" : i \in {i \in DOMAIN cats : starts_with(cats[i], "5")}}
    IN  IF xbytes_cats = {} THEN {"1", "2"} ELSE xbytes_cats

\* the parameters in the order the scraper adds them (lines 356-373 and
\* 620-641): alive, the search key, one categories[idx] per native code, the
\* codes in the order list(xbytes_cats) gave them
params_of(req, order) ==
    <<[key |-> <<"alive">>, value |-> <<"true">>]>>
    \o search_key(req)
    \o (IF req.category \in {<<>>, <<"">>} THEN <<>>
        ELSE [idx \in DOMAIN order |->
                [key |-> <<"categories[", order[idx], "]">>, value |-> <<order[idx]>>]])

\* '&'.join(params) with every element f'{key}={value}' (lines 356-375)
RECURSIVE join(_)
join(params) ==
    IF params = <<>> THEN <<>>
    ELSE Head(params).key \o <<"=">> \o Head(params).value
         \o (IF Tail(params) = <<>> THEN <<>> ELSE <<"&">> \o join(Tail(params)))

\* how the site reads a query string: parameters between '&', the key of a
\* parameter before its first '='
RECURSIVE parse_qs(_)
parse_qs(u) ==
    LET find(v, c) == IF \E i \in DOMAIN v : v[i] = c
                      THEN CHOOSE i \in DOMAIN v : v[i] = c /\ \A j \in 1..(i - 1) : v[j] # c
                      ELSE Len(v) + 1
        amp == find(u, "&")
        part == SubSeq(u, 1, amp - 1)
        eq == find(part, "=")
        pair == [key |-> SubSeq(part, 1, eq - 1),
                 value |-> SubSeq(part, eq + 1, Len(part))]
    IN  IF u = <<>> THEN <<>>
        ELSE <<pair>> \o (IF amp > Len(u) THEN <<>>
                          ELSE parse_qs(SubSeq(u, amp + 1, Len(u))))

\* what the site receives. Torrentland: page.goto(full_url), the string as it
\* was joined (lines 375, 396); xBytesV2: client.get(search_url,
\* params=params), each key and value encoded by the client (line 657)
site_query(scraper_name, params) ==
    IF scraper_name = "TorrentlandScraper" THEN parse_qs(join(params)) ELSE params

\* search, up to the request sent to the site
build_query ==
    /\ ~out.called
    /\ LET req == SearchRequest(arg)
           xbytes_cats == map_torznab_categories(req.category)
       IN  \E order \in [1..Cardinality(xbytes_cats) -> xbytes_cats] :
              /\ \A i, j \in DOMAIN order : i # j => order[i] # order[j]
              /\ out' = Returned(site_query(arg.scraper, params_of(req, order)))
    /\ UNCHANGED arg
    /\ UNCHANGED <<authVars, srch, schedVars, apiVars, titleVars, browserVars>>

\* the state in which a helper of the scrapers is called with an argument of
\* args: nothing else is going on
InitHelper(args) ==
    /\ sessions = <<>>
    /\ cookie_files = <<>>
    /\ lock = NoTask
    /\ now = 0
    /\ config = FullConfig
    /\ NoCalls
    /\ ensHist = <<>>
    /\ SchedulerOff
    /\ ApiOff
    /\ TitlesOff
    /\ arg \in args
    /\ out = NotCalled
    /\ BrowserOff

SpecQuery == InitHelper(QueryArgs) /\ [][build_query]_vars

(***************************************************************************)
(* SpecCategory: the category the row parsers give a torrent               *)
(* (unit3d.py 113-154, 566-569, 792-796). A label and a title are the      *)
(* sequences of their lexemes.                                             *)
(***************************************************************************)
\* the rows a parser meets: for Torrentland the text of the category label
\* ("Unknown" when the row has none), for xBytesV2 the data-category-id
CategoryArgs ==
    LET titles == {<<"Show">>, <<"Show", " ", "1080p">>, <<"Show", " ", "2160p">>,
                   <<"Show", " ", "480p">>, <<"Show", " ", "4K", " ", "720p">>,
                   <<"ShowHD">>}
    IN  [scraper : {"TorrentlandScraper"},
         label : {<<"Movie", "s">>, <<"Serie", "s">>, <<"Cine">>, <<"TV">>,
                  <<"Anime">>, <<"Anime", " ", "TV">>, <<"Documental">>, <<"Unknown">>},
         title : titles]
        \cup [scraper : {"XBytesV2Scraper"},
              label : {<<"1">>, <<"2">>, <<"3">>, <<"4">>, <<"Unknown">>},
              title : titles]

\* map_category_to_torznab_id: 'word in category_lower' is a test for a
\* substring, \b(...)\b a test for a whole word of the upper-cased title
map_category_to_torznab_id(category_text, title_text) ==
    LET to_lower(c) == CASE c = "Movie" -> "movie" [] c = "Serie" -> "serie"
                      [] c = "Cine" -> "cine" [] c = "TV" -> "tv"
                      [] c = "Anime" -> "anime" [] OTHER -> c
        to_upper(c) == CASE c = "1080p" -> "1080P" [] c = "2160p" -> "2160P"
                      [] c = "720p" -> "720P" [] c = "480p" -> "480P"
                      [] c = "ShowHD" -> "SHOWHD" [] c = "Show" -> "SHOW"
                      [] OTHER -> c
        has(word) == \E i \in DOMAIN category_text : to_lower(category_text[i]) = word
        word_of(words) == \E i \in DOMAIN title_text : to_upper(title_text[i]) \in words
        is_sd == word_of({"SD", "480P", "576P"})
        is_hd == word_of({"HD", "720P", "1080P"})
        is_uhd == word_of({"UHD", "2160P", "4K"})
    IN  IF has("pelicula") \/ has("movie") \/ has("film") \/ has("cine")
        THEN IF is_uhd THEN "2050" ELSE IF is_hd THEN "2040"
             ELSE IF is_sd THEN "2030" ELSE "2000"
        ELSE IF has("serie") \/ has("tv") \/ has("television") \/ has("temporada")
        THEN IF is_uhd THEN "5050" ELSE IF is_hd THEN "5040"
             ELSE IF is_sd THEN "5030" ELSE "5000"
        ELSE IF has("anime")
        THEN IF has("serie") \/ has("tv") THEN "5070" ELSE "2060"
        ELSE "2000"

\* _parse_torrent_row of xBytesV2, lines 792-795: the name of the category id
category_name(category_id) ==
    CASE category_id = <<"1">> -> <<"Movie", "s">>
      [] category_id = <<"2">> -> <<"TV">>
      [] category_id = <<"3">> -> <<"Anime", " ", "Movie", "s">>
      [] category_id = <<"4">> -> <<"Anime", " ", "TV">>
      [] OTHER -> <<"Movie", "s">>

\* _parse_torrent_row, lines 566-569 and 792-796: the category of the Torrent
parse_category ==
    /\ ~out.called
    /\ out' = Returned(map_category_to_torznab_id(
                  IF arg.scraper = "XBytesV2Scraper" THEN category_name(arg.label)
                  ELSE arg.label,
                  arg.title))
    /\ UNCHANGED arg
    /\ UNCHANGED <<authVars, srch, schedVars, apiVars, titleVars, browserVars>>

SpecCategory == InitHelper(CategoryArgs) /\ [][parse_category]_vars

(***************************************************************************)
(* SpecSize: _parse_size (unit3d.py 211-235) on the text of a size cell.   *)
(* A size string is the sequence of its characters.                        *)
(***************************************************************************)
\* the longest run of blanks and the longest tail after the unit
MaxBlanks == 2
MaxTailLen == 1

\* size cells: blanks or stray text, a number, blanks, a unit, more text
SizeStrings ==
    LET leads == {<<>>, <<" ">>, <<"X">>}
        numbers == {<<>>, <<"1">>, <<"1", "5">>, <<"1", ".", "5">>, <<".", "5">>,
                    <<"0", ".", "1">>, <<"1", ".">>, <<".">>, <<"1", ".", "5", ".", "1">>}
        blanks == {[i \in 1..n |-> " "] : n \in 0..MaxBlanks}
        units == {<<>>, <<"B">>, <<"b">>, <<"K", "B">>, <<"k", "b">>, <<"K", "i", "B">>,
                  <<"M", "B">>, <<"M", "i", "B">>, <<"G", "B">>, <<"G", "i", "B">>,
                  <<"T", "B">>, <<"T", "i", "B">>, <<"i", "B">>, <<"X", "B">>, <<"K">>}
        tails == {[i \in 1..n |-> "X"] : n \in 0..MaxTailLen}
    IN  {l \o n \o b \o u \o t :
            l \in leads, n \in numbers,
            b \in blanks, u \in units, t \in tails}

\* int() of a run of digits, 0 for the empty run
RECURSIVE digits_value(_)
digits_value(v) ==
    IF v = <<>> THEN 0
    ELSE digits_value(SubSeq(v, 1, Len(v) - 1)) * 10 + DigitVal(v[Len(v)])

\* A number of bytes is the sequence of its digits in base 1024, the most
\* significant first and not 0; <<>> is 0. The quotient of the number with
\* digits v, after a remainder rem, by d:
RECURSIVE divide(_, _, _)
divide(v, d, rem) ==
    IF v = <<>> THEN <<>>
    ELSE LET x == rem * 1024 + Head(v)
         IN  <<x \div d>> \o divide(Tail(v), d, x % d)

\* _parse_size: strip().upper(), re.match(r'([\d.]+)\s*([KMGT]?I?B)'),
\* float() of the number, int() of its product with the multiplier, which is
\* here floor((digits without the point) * 1024^k / 10^(digits after the
\* point)), the digits without the point being a number below 1024.
parse_size(size_str) ==
    LET to_upper(c) == CASE c = "k" -> "K" [] c = "i" -> "I" [] c = "b" -> "B"
                         [] OTHER -> c
        run(v, P(_)) == CHOOSE k \in 0..Len(v) :
                            /\ \A i \in 1..k : P(v[i])
                            /\ k = Len(v) \/ ~P(v[k + 1])
        blank(c) == c = " "
        lead == run(size_str, blank)
        rev == [i \in 1..Len(size_str) |-> size_str[Len(size_str) + 1 - i]]
        trail == IF lead = Len(size_str) THEN 0 ELSE run(rev, blank)
        stripped == SubSeq(size_str, lead + 1, Len(size_str) - trail)
        u == [i \in DOMAIN stripped |-> to_upper(stripped[i])]
        number_char(c) == IsDigit(c) \/ c = "."
        n == run(u, number_char)
        number == SubSeq(u, 1, n)
        after_number == SubSeq(u, n + 1, Len(u))
        rest == SubSeq(after_number, run(after_number, blank) + 1, Len(after_number))
        at(i) == IF i <= Len(rest) THEN rest[i] ELSE ""
        p1 == IF at(1) \in {"K", "M", "G", "T"} THEN 2 ELSE 1
        p2 == IF at(p1) = "I" THEN p1 + 1 ELSE p1
        matched == n > 0 /\ at(p2) = "B"
        \* multipliers.get(unit, 1) is 1024^k; the unit 'IB' is not a key
        k == CASE at(1) = "K" -> 1 [] at(1) = "M" -> 2 [] at(1) = "G" -> 3
               [] at(1) = "T" -> 4 [] OTHER -> 0
        zero(x) == x = 0
        points == {i \in DOMAIN number : number[i] = "."}
        is_float == Cardinality(points) <= 1 /\ Cardinality(points) < Len(number)
        point == IF points = {} THEN Len(number) + 1 ELSE CHOOSE i \in points : TRUE
        whole == digits_value(SubSeq(number, 1, point - 1))
        fraction == SubSeq(number, point + 1, Len(number))
        product == divide(<<whole * 10 ^ Len(fraction) + digits_value(fraction)>>
                            \o [i \in 1..k |-> 0],
                          10 ^ Len(fraction), 0)
    IN  IF ~matched THEN Returned(<<>>)
        ELSE IF ~is_float THEN [called |-> TRUE, raised |-> "ValueError"]
        ELSE Returned(SubSeq(product, run(product, zero) + 1, Len(product)))

\* _parse_torrent_row, lines 545-547 and 768-769: the size of the row
call_parse_size ==
    /\ ~out.called
    /\ out' = parse_size(arg)
    /\ UNCHANGED arg
    /\ UNCHANGED <<authVars, srch, schedVars, apiVars, titleVars, browserVars>>

SpecSize == InitHelper(SizeStrings) /\ [][call_parse_size]_vars

(***************************************************************************)
(* SpecBrowser: the callers of AuthManager._get_browser (src/app/auth.py   *)
(* lines 26-34): _perform_login, under the lock of the Session Manager,    *)
(* validate_credentials and TorrentlandScraper.search, without it.         *)
(***************************************************************************)
\* what the callers of _get_browser leave alone
notBrowser ==
    <<sessions, cookie_files, now, config, call, site, cret, ensHist, srch,
      schedVars, apiVars, titleVars, helperVars>>

\* a caller reaches "await self._get_browser()": through ensure_session or
\* refresh_session (via = "login", inside "async with self._lock"), through
\* validate_credentials or through TorrentlandScraper.search. _get_browser
\* tests self.browser: when it is set it is returned at once.
get_browser(t, via) ==
    /\ pc[t] = "idle"
    /\ via \in {"login", "validate", "search"}
    /\ IF via = "login"
       THEN lock = NoTask /\ lock' = t
       ELSE UNCHANGED lock
    /\ op' = [op EXCEPT ![t] = via]
    /\ IF browser = NoTask
       THEN /\ pc' = [pc EXCEPT ![t] = "playwright"]
            /\ UNCHANGED ret
       ELSE /\ pc' = [pc EXCEPT ![t] = "using"]
            /\ ret' = [ret EXCEPT ![t] = browser]
    /\ UNCHANGED <<browser, launched>>
    /\ UNCHANGED notBrowser

\* line 29: "await async_playwright().start()" ends
PlaywrightStarted(t) ==
    /\ pc[t] = "playwright"
    /\ pc' = [pc EXCEPT ![t] = "launch"]
    /\ UNCHANGED <<lock, op, ret, browser, launched>>
    /\ UNCHANGED notBrowser

\* lines 30-34: "await self.playwright.chromium.launch(...)" ends, the new
\* browser is stored in self.browser and returned
BrowserLaunched(t) ==
    /\ pc[t] = "launch"
    /\ launched' = Append(launched, t)
    /\ browser' = t
    /\ ret' = [ret EXCEPT ![t] = t]
    /\ pc' = [pc EXCEPT ![t] = "using"]
    /\ UNCHANGED <<lock, op>>
    /\ UNCHANGED notBrowser

\* the caller is through with its context: a login leaves "async with"
BrowserUsed(t) ==
    /\ pc[t] = "using"
    /\ pc' = [pc EXCEPT ![t] = "idle"]
    /\ op' = [op EXCEPT ![t] = "none"]
    /\ ret' = [ret EXCEPT ![t] = "none"]
    /\ lock' = IF lock = t THEN NoTask ELSE lock
    /\ UNCHANGED <<browser, launched>>
    /\ UNCHANGED notBrowser

NextBrowser ==
    \E t \in Tasks :
        \/ \E via \in {"login", "validate", "search"} : get_browser(t, via)
        \/ PlaywrightStarted(t)
        \/ BrowserLaunched(t)
        \/ BrowserUsed(t)

SpecBrowser == InitHelper({<<>>}) /\ [][NextBrowser]_vars

(***************************************************************************)
(* SpecRows: the loop of search over the rows of a results page            *)
(* (src/app/scrapers/unit3d.py lines 503-520 and 727-743). A row is what   *)
(* _parse_torrent_row makes of it and its place on the page.               *)
(***************************************************************************)
MaxRows == 3
MaxLimit == 3

\* torrent_rows[:request.limit] for a limit that is not negative
slice_to(rows, limit) ==
    SubSeq(rows, 1, IF limit < Len(rows) THEN limit ELSE Len(rows))

\* _parse_torrent_row on row i: the Torrent, whose id is the place of the
\* row, or None; an exception inside is caught by the parser itself
parse_torrent_row(kind, i) ==
    IF kind = "ok" THEN <<i>> ELSE <<>>

\* the for loop stopping at the first row that gives no Torrent
RECURSIVE parse_until_failure(_, _)
parse_until_failure(rows, i) ==
    IF i > Len(rows) \/ parse_torrent_row(rows[i], i) = <<>> THEN <<>>
    ELSE parse_torrent_row(rows[i], i) \o parse_until_failure(rows, i + 1)

\* the for loop from row i on: a row that gives None adds nothing
RECURSIVE parse_rows(_, _)
parse_rows(rows, i) ==
    IF i > Len(rows) THEN <<>>
    ELSE parse_torrent_row(rows[i], i) \o parse_rows(rows, i + 1)

\* search, from the selection of the rows to the return
search_rows ==
    /\ ~out.called
    /\ out' = Returned(parse_rows(slice_to(arg.rows, arg.limit), 1))
    /\ UNCHANGED arg
    /\ UNCHANGED <<authVars, srch, schedVars, apiVars, titleVars, browserVars>>

\* the pages: row i is well-formed ("ok"), has no title link, has a link
\* without torrent id, or has a cell that makes the parser raise (a seeders
\* cell that is no number)
SpecRows ==
    /\ InitHelper([rows : UNION {[1..n -> {"ok", "notitle", "noid", "raises"}] : n \in 0..MaxRows},
                   limit : 0..MaxLimit])
    /\ [][search_rows]_vars

(***************************************************************************)
(* SpecRemove: sites are removed through the web interface                 *)
(* (src/app/web/ui.py lines 265-296) while calls of the Session Manager    *)
(* are in progress; both sites are configured at the start.                *)
(***************************************************************************)
\* api_delete_indexer: 404 for a site that is not configured; otherwise
\* delete_cookies and then delete_indexer, with no await in between
api_delete_indexer(s) ==
    /\ s \in (DOMAIN config)
    /\ IF s \in (DOMAIN cookie_files)
       THEN /\ cookie_files' = Del(cookie_files, s)
            /\ sessions' = Del(sessions, s)
       ELSE UNCHANGED <<cookie_files, sessions>>
    /\ ensHist' = IF s \in (DOMAIN ensHist) THEN [ensHist EXCEPT ![s] = <<>>] ELSE ensHist
    /\ config' = Del(config, s)
    /\ UNCHANGED <<lock, now, pc, op, call, site, cret, ret, srch>>
    /\ UNCHANGED notAuth

InitRemove ==
    /\ InitAuth
    /\ config = FullConfig
    /\ ensHist = <<>>

NextRemove ==
    \/ \E t \in Tasks, s \in Sites : StartEnsure(t, s)
    \/ \E t \in Tasks, s \in Sites : StartRefresh(t, s)
    \/ AuthSteps
    \/ \E s \in Sites : api_delete_indexer(s)

SpecRemove == InitRemove /\ [][NextRemove]_vars

(***************************************************************************)
(* SpecCats: _map_torznab_categories on the category filter of a request   *)
(* (unit3d.py 313-339). The filter is the sequence of its codes.           *)
(***************************************************************************)
\* the longest filter, in codes
MaxCats == 2
\* the codes the capabilities document advertises, the anime code and a code
\* of another kind
TorznabCodes == {"2000", "2030", "2040", "2050", "5000", "5030", "5040", "5050", "5070", "8000"}

\* the scraper maps the filter of the request
call_map_torznab_categories ==
    /\ ~out.called
    /\ out' = Returned(map_torznab_categories(arg))
    /\ UNCHANGED arg
    /\ UNCHANGED <<authVars, srch, schedVars, apiVars, titleVars, browserVars>>

SpecCats ==
    /\ InitHelper(UNION {[1..n -> TorznabCodes] : n \in 0..MaxCats})
    /\ [][call_map_torznab_categories]_vars

(***************************************************************************)
(* SpecLang: get_title_with_languages (models.py 90-120). A title is the   *)
(* sequence of its lexemes: a language marker, another run of letters, a   *)
(* blank or a slash. The titles have no 'temporada', no parenthesis and no *)
(* digit: _transform_season_format (line 176) and _remove_year_parentheses *)
(* (line 78) return such a title as it is, and the substitutions of lines  *)
(* 109 and 115-116 match nothing in it.                                    *)
(***************************************************************************)
\* the longest title, in lexemes
MaxLexemes == 3
LangLexemes == {"ESP", "ING", "K", " ", "/"}

get_title_with_languages(t) ==
    LET \* \w of the regular expressions
        word_char(c) == c \notin {" ", "/"}
        \* line 103: re.sub(r'\b(ESP|SPA|CAST)\b', 'SPANiSH', ...)
        spanish(u) ==
            [i \in DOMAIN u |->
                IF /\ u[i] \in {"ESP", "SPA", "CAST"}
                   /\ (i = 1 \/ ~word_char(u[i - 1]))
                   /\ (i = Len(u) \/ ~word_char(u[i + 1]))
                THEN "SPANiSH" ELSE u[i]]
        \* line 106: re.sub(r'(ING|ENG)/?', '', ...)
        RECURSIVE english(_)
        english(u) ==
            IF u = <<>> THEN <<>>
            ELSE IF Head(u) \in {"ING", "ENG"}
            THEN IF Len(u) >= 2 /\ u[2] = "/"
                 THEN english(SubSeq(u, 3, Len(u)))
                 ELSE english(Tail(u))
            ELSE <<Head(u)>> \o english(Tail(u))
        \* line 112: re.sub(r'/+', '/', ...)
        RECURSIVE slashes(_)
        slashes(u) ==
            IF Len(u) < 2 THEN u
            ELSE IF u[1] = "/" /\ u[2] = "/" THEN slashes(Tail(u))
            ELSE <<Head(u)>> \o slashes(Tail(u))
    IN  slashes(english(spanish(t)))

\* create_torznab_xml asks a torrent for its title
call_get_title_with_languages ==
    /\ ~out.called
    /\ out' = Returned(get_title_with_languages(arg))
    /\ UNCHANGED arg
    /\ UNCHANGED <<authVars, srch, schedVars, apiVars, titleVars, browserVars>>

SpecLang ==
    /\ InitHelper(UNION {[1..n -> LangLexemes] : n \in 0..MaxLexemes})
    /\ [][call_get_title_with_languages]_vars

(***************************************************************************)
(* SpecGate: the three endpoints that reach a tracker (the Torznab         *)
(* endpoint, the JSON search endpoint of api/indexers.py and the download  *)
(* endpoint of api/download.py), one request at a time, while the sites    *)
(* are enabled and disabled from the web interface and the clock moves.    *)
(* The configurations are those of ApiConfigs and one whose indexers.json  *)
(* holds a third site.                                                     *)
(***************************************************************************)
\* a site of indexers.json other than the two whose scrapers are written
OtherSite == "hdolimpo"

\* the name under which the scraper built for an indexer reads cookies, renews
\* the session and labels its records: the constructors pass a fixed name
\* (unit3d.py lines 346 and 608), and every indexer but torrentland gets
\* an XBytesV2Scraper (torznab.py lines 293-300)
scraper_name(indexer) ==
    IF scraper_of(indexer) = "TorrentlandScraper" THEN "torrentland" ELSE "xbytesv2"

\* search_indexer (indexers.py 48-79) up to its first await; it has a scraper
\* for the two sites only
search_indexer(s) ==
    /\ request = NoRequest
    /\ request' = [NoRequest EXCEPT !.indexer = s, !.t = "json"]
    /\ found' = <<>>
    /\ IF s \notin (DOMAIN config)
       THEN /\ response' = HTTPException(404)
            /\ scraper' = "none"
       ELSE IF ~can_search(s)
       THEN /\ response' = [NoResponse EXCEPT !.status = 200, !.via = "json"]
            /\ scraper' = "none"
       ELSE IF s \notin Sites
       THEN /\ response' = HTTPException(404)
            /\ scraper' = "none"
       ELSE /\ response' = NoResponse
            /\ scraper' = scraper_of(s)
    /\ UNCHANGED <<authVars, srch, schedVars, titleVars, helperVars, browserVars>>

\* download_torrent_file (download.py 21-52) up to its first await,
\* get_cookies; every configured site has a URL
download_torrent_file(s) ==
    /\ request = NoRequest
    /\ request' = [NoRequest EXCEPT !.indexer = s, !.t = "download"]
    /\ found' = <<>>
    /\ IF s \notin (DOMAIN config)
       THEN /\ response' = HTTPException(404)
            /\ scraper' = "none"
       ELSE IF ~can_search(s)
       THEN /\ response' = HTTPException(403)
            /\ scraper' = "none"
       ELSE /\ response' = NoResponse
            /\ scraper' = "download"
    /\ UNCHANGED <<authVars, srch, schedVars, titleVars, helperVars, browserVars>>

\* what the endpoint awaits is over: the search or the download has fetched
\* from the tracker, after a login or a session renewal when login is true,
\* and the request is answered. A search logs in under the name of its
\* scraper and labels its records with it (unit3d.py lines 586-587, 810-811),
\* a download under the indexer of the request (download.py line 48); a download whose get_cookies found no
\* session and could not log in is answered 401. The JSON endpoint builds the scraper of
\* xbytesv2 with its arguments in the wrong places (indexers.py line 69):
\* that search raises before it reaches the tracker and returns [].
TrackerAnswered(torrents, login) ==
    /\ scraper # "none"
    /\ response = NoResponse
    /\ (request.t = "json" /\ request.indexer = "xbytesv2") => (~login /\ torrents = <<>>)
    /\ request.t = "download" => torrents = <<>>
    /\ \A i \in DOMAIN torrents :
          /\ torrents[i].indexer = scraper_name(request.indexer)
          /\ torrents[i].guid[1] = scraper_name(request.indexer)
    /\ found' = torrents
    /\ sessions' =
         IF ~login THEN sessions
         ELSE IF request.t = "download" THEN Put(sessions, request.indexer, NewSession)
         ELSE Put(sessions, scraper_name(request.indexer), NewSession)
    /\ response' =
         IF request.t = "download"
         THEN IF login \/ request.indexer \in (DOMAIN sessions)
              THEN [NoResponse EXCEPT !.status = 200, !.via = "download"]
              ELSE HTTPException(401)
         ELSE IF request.t = "json"
         THEN [NoResponse EXCEPT !.status = 200, !.via = "json", !.torrents = torrents]
         ELSE create_torznab_xml(torrents, "search")
    /\ scraper' = "none"
    /\ UNCHANGED request
    /\ UNCHANGED <<cookie_files, lock, now, config, pc, op, call, site, cret, ret, ensHist, srch>>
    /\ UNCHANGED <<schedVars, titleVars, helperVars, browserVars>>

\* the configurations of ApiConfigs and one whose indexers.json holds a
\* third site, at midnight and at noon, no request in hand
InitGate ==
    /\ sessions = <<>>
    /\ cookie_files = <<>>
    /\ lock = NoTask
    /\ now \in ApiClocks
    /\ config \in ApiConfigs \cup {Put(FullConfig, OtherSite, FullConfig["xbytesv2"])}
    /\ NoCalls
    /\ ensHist = <<>>
    /\ SchedulerOff
    /\ ApiOff
    /\ TitlesOff
    /\ HelpersOff
    /\ BrowserOff

SpecGate ==
    /\ InitGate
    /\ [][\/ \E r \in Requests, s \in Sites \cup {OtherSite, "unknown"} :
              /\ r.cat = NoCat /\ r.season = None /\ r.ep = None
              /\ torznab_api([r EXCEPT !.indexer = s])
          \/ \E s \in Sites \cup {OtherSite, "unknown"} : search_indexer(s)
          \/ \E s \in Sites \cup {OtherSite, "unknown"} : download_torrent_file(s)
          \/ \E torrents \in {<<>>} \cup {<<FoundTorrent(s, t, 1)>> : s \in Sites, t \in FoundTitles},
                login \in BOOLEAN : TrackerAnswered(torrents, login)
          \/ Reply
          \/ \E s \in Sites \cup {OtherSite}, enabled \in BOOLEAN : update_indexer(s, enabled)
          \/ Advance]_vars

(***************************************************************************)
(* Claims about the Session Manager.                                       *)
(***************************************************************************)
\* C1 (as stated): of two consecutive ensure_session calls on a site with no
\* delete_cookies in between, at most one attempts a login.
C1_AtMostOneLogin ==
    \A s \in (DOMAIN ensHist) :
        Len(ensHist[s]) = 2 =>
            ~(ensHist[s][1].path = "login" /\ ensHist[s][2].path = "login")

\* C1 (amended): when the first of two consecutive ensure_session calls on a
\* site returned True and the second makes its check before the expiry of
\* the session the first one left, the second call attempts no login.
C1_SecondCallUsesCache ==
    \A s \in (DOMAIN ensHist) :
        (/\ Len(ensHist[s]) = 2
         /\ ensHist[s][1].ok
         /\ ensHist[s][2].at < ensHist[s][1].exp)
        => ensHist[s][2].path # "login"

\* a first call that logged in successfully, then a second one served from
\* the cached session
C1_Witness ==
    \E s \in (DOMAIN ensHist) :
        /\ Len(ensHist[s]) = 2
        /\ ensHist[s][1].path = "login" /\ ensHist[s][1].ok
        /\ ensHist[s][2].path = "cached"
        /\ pc[Caller] = "done" /\ op[Caller] = "ensure" /\ site[Caller] = s

\* task t is inside the login procedure (_perform_login or the login of
\* validate_credentials), which ends by writing the session map
InLogin(t) == pc[t] \in {"login", "form", "closing"}

\* C2: at most one login procedure is in progress at any time, and every task
\* in the login procedure, which writes the session map, holds the lock.
C2_LoginsSerialized ==
    /\ Cardinality({t \in Tasks : InLogin(t)}) <= 1
    /\ \A t \in Tasks : InLogin(t) => lock = t

\* C3: a session that ensure_session uses on its immediate-return path, or
\* that check_session_status reports as authenticated, has an expiry strictly
\* later than the current time.
C3_AuthenticatedImpliesUnexpired ==
    /\ \A s \in Sites :
         check_session_status(s).authenticated => now < check_session_status(s).expires
    /\ \A s \in (DOMAIN ensHist) : \A i \in 1..Len(ensHist[s]) :
         ensHist[s][i].path = "cached" => ensHist[s][i].at < ensHist[s][i].exp

(***************************************************************************)
(* Claims about the scraper search calls.                                  *)
(***************************************************************************)
Searches == {"search_tl", "search_xb"}

\* C4: within one search call, a first fetch detected as login page (or
\* answered 401/403 by the HTTP variant) is followed by exactly one
\* refresh_session call, made with the resources of the search closed; the
\* fetch is retried, once, only after that renewal succeeded; a search makes
\* at most two fetches and one renewal and returns [] when the renewal fails.
C4_RenewAndRetryOnce ==
    \A t \in Tasks : op[t] \in Searches =>
        LET s == srch[t] IN
        /\ s.fetches <= 2 /\ s.renewals <= 1
        /\ s.detected => (s.renewals = 1 /\ s.openAtRenew = 0)
        /\ s.renewals = 1 => s.detected
        /\ s.fetches = 2 => (s.detected /\ s.renewed = "true")
        /\ s.renewed \in {"false", "raised"} =>
               (pc[t] = "done" /\ ret[t] = "empty" /\ s.fetches = 1)

\* a search whose first fetch met the login page, renewed the session and
\* got its rows from the retry
C4_Witness ==
    \E t \in Tasks :
        /\ op[t] \in Searches /\ pc[t] = "done"
        /\ srch[t].detected /\ srch[t].renewed = "true"
        /\ srch[t].fetches = 2 /\ ret[t] = "rows"

\* C5: a search call never raises to its caller; on every failure path (no
\* session, an exception of the fetch, no results table, an HTTP error
\* status, a failed renewal, a failed retry) it returns [].
C5_SearchNeverRaises ==
    \A t \in Tasks : (op[t] \in Searches /\ pc[t] = "done") =>
        /\ ret[t] \in {"rows", "empty"}
        /\ (srch[t].exc \/ srch[t].renewed \in {"false", "raised"}) => ret[t] = "empty"

\* a search whose retry ended in an exception and that returned []
C5_Witness ==
    \E t \in Tasks :
        /\ op[t] \in Searches /\ pc[t] = "done"
        /\ srch[t].exc /\ srch[t].fetches = 2 /\ ret[t] = "empty"

(***************************************************************************)
(* Claims about the session scheduler.                                     *)
(***************************************************************************)
\* C6: the scheduler calls refresh_session for a site at most once in the
\* day's occurrence of the site's scheduled minute (the run covers one day).
C6_RenewedAtMostOncePerDay ==
    \A s \in Sites : renewed[s] <= 1

(***************************************************************************)
(* Claims about the Torznab endpoint.                                      *)
(***************************************************************************)
\* C7: a search, tvsearch or movie request with the valid API key for a
\* configured site that is disabled or outside its time window is answered
\* at once with status 200 and a feed of exactly one item, the placeholder,
\* with zero seeders, zero leechers and the first category of the requested
\* filter, or 2000 when there is no filter; no scraper is started.
C7_PlaceholderWhenSuppressed ==
    [][\A r \in Requests :
          (/\ torznab_api(r)
           /\ r.apikey = ApiKey
           /\ r.t \in SearchTypes
           /\ r.indexer \in (DOMAIN config)
           /\ ~can_search(r.indexer))
          => /\ response'.status = 200
             /\ Len(response'.items) = 1
             /\ response'.items[1].guid = <<r.indexer, "disabled", "info">>
             /\ response'.items[1].seeders = 0
             /\ response'.items[1].peers = 0
             /\ response'.torrents[1].leechers = 0
             /\ response'.items[1].category =
                   (IF r.cat \in {NoCat, <<"">>} THEN "2000" ELSE r.cat[1])
             /\ scraper' = "none"]_vars

\* a movie request with a category filter for an enabled site outside its
\* time window has received the placeholder in the first category asked
C7_Witness ==
    /\ request.t = "movie"
    /\ request.cat = <<"5040", "2000">>
    /\ is_enabled(request.indexer)
    /\ ~is_within_time_restrictions(request.indexer)
    /\ response.via = "placeholder"
    /\ Len(response.items) = 1
    /\ response.items[1].category = "5040"

\* C8: a caps request with the valid API key for a configured site is
\* answered at once with the static capabilities document and its eight
\* fixed categories, whether or not the site is enabled or inside its time
\* window; no scraper is started and no session, jar or lock is touched.
C8_CapsAlwaysStatic ==
    [][\A r \in Requests :
          (/\ torznab_api(r)
           /\ r.apikey = ApiKey
           /\ r.t = "caps"
           /\ r.indexer \in (DOMAIN config))
          => /\ response'.status = 200
             /\ response'.via = "caps"
             /\ response'.items = <<>>
             /\ response'.categories =
                   <<"2000", "5000", "5030", "5040", "5050", "2030", "2040", "2050">>
             /\ scraper' = "none"
             /\ UNCHANGED <<sessions, cookie_files, lock>>]_vars

\* the capabilities document has been returned for a site that cannot search
C8_Witness ==
    /\ request.t = "caps"
    /\ request.indexer \in (DOMAIN config)
    /\ ~can_search(request.indexer)
    /\ response.via = "caps"
    /\ response.status = 200

\* the season the filter compares: the one of the explicit season and
\* episode pattern, else the one of the season-only pattern
ParsedSeason(t) ==
    IF parse_season_episode(t)[1] # None
    THEN parse_season_episode(t)[1] ELSE parse_season_only(t)
\* the torrents a request for request.season (and request.ep) asks for
Wanted(torrent) ==
    /\ ParsedSeason(torrent.title) = request.season
    /\ IF request.ep # None
       THEN parse_season_episode(torrent.title)[2] = request.ep
       ELSE parse_season_episode(torrent.title)[2] = None

RECURSIVE RunLen(_, _)
RunLen(u, i) == IF IsDigit(At(u, i)) THEN 1 + RunLen(u, i + 1) ELSE 0
\* the number written by the n digits from position i on
RECURSIVE RunVal(_, _, _)
RunVal(u, i, n) ==
    IF n = 0 THEN 0 ELSE 10 * RunVal(u, i, n - 1) + DigitVal(u[i + n - 1])
\* the positions where a number starts
RunStarts(u) == {i \in 1..Len(u) : IsDigit(u[i]) /\ ~IsDigit(At(u, i - 1))}
\* the number that starts at position i
NumberAt(u, i) == RunVal(u, i, RunLen(u, i))
\* the position after the number that starts at position i
After(u, i) == i + RunLen(u, i)

\* the (season, episode) pairs written in the title as S<season>E<episode>,
\* /S<season>/E<episode>/ or <season>x<episode>
WrittenPairs(u) ==
    {<<NumberAt(u, a), NumberAt(u, b)>> : <<a, b>> \in
       {p \in RunStarts(u) \X RunStarts(u) :
          LET a == p[1]
              b == p[2]
          IN  \/ /\ At(u, a - 1) = "S"
                 /\ At(u, After(u, a)) = "E"
                 /\ b = After(u, a) + 1
              \/ /\ At(u, a - 2) = "/" /\ At(u, a - 1) = "S"
                 /\ At(u, After(u, a)) = "/" /\ At(u, After(u, a) + 1) = "E"
                 /\ b = After(u, a) + 2
                 /\ At(u, After(u, b)) = "/"
              \/ /\ At(u, After(u, a)) = "X"
                 /\ b = After(u, a) + 1}}

\* the seasons written in the title as S<season>, Season <season>,
\* Temporada <season> or <ordinal> temporada
SeasonMarks(u) ==
    {NumberAt(u, a) : a \in {i \in RunStarts(u) : At(u, i - 1) = "S"}}
    \cup {NumberAt(u, a) : a \in {i \in RunStarts(u) :
             \E k \in 1..(i - 2) :
                /\ u[k] \in {"SEASON", "TEMPORADA"}
                /\ \A m \in (k + 1)..(i - 1) : u[m] = " "}}
    \cup {k \in 1..Len(Ordinals) : has_ordinal(k, u)}

\* the title names an episode
EpisodeWritten(u) ==
    \/ WrittenPairs(u) # {}
    \/ \E i \in 1..Len(u) : u[i] \in {"EPISODE", "CAPITULO"}

\* C10: when the title writes one (season, episode) pair as S<s>E<e>,
\* /S<s>/E<e>/ or <s>x<e>, parse_season_episode returns that pair; when the
\* title writes one season and no episode, parse_season_only returns that
\* season and parse_season_episode returns (None, None).
C10_ParsersReturnWhatIsWritten ==
    parsed.done =>
      LET u == title_upper(title) IN
      /\ Cardinality(WrittenPairs(u)) = 1
            => parsed.season_episode \in WrittenPairs(u)
      /\ (~EpisodeWritten(u) /\ Cardinality(SeasonMarks(u)) = 1)
            => /\ parsed.season_only \in SeasonMarks(u)
               /\ parsed.season_episode = <<None, None>>


(***************************************************************************)
(* C14: refresh_session always runs the login procedure of the site, under *)
(* the lock, also when the in-memory session is authenticated and          *)
(* unexpired and persisted cookies exist; what it returns is what that     *)
(* login returned (or the exception the login raised).                     *)
(***************************************************************************)
C14_RefreshAlwaysLogsIn ==
    [][\A t \in Tasks :
          /\ (call[t] = "refresh" /\ pc[t] = "ref_wait" /\ pc'[t] # "ref_wait")
                => (pc'[t] = "login" /\ lock' = t)
          /\ (op[t] = "refresh" /\ pc[t] # "done" /\ pc'[t] = "done")
                => /\ pc[t] \in {"login", "form", "closing"}
                   /\ lock = t
                   /\ ret'[t] = IF pc[t] = "closing" THEN cret[t] ELSE "raised"]_vars
\* a refresh_session call is inside the login, holding the lock, although the
\* session of its site is usable and its cookies are persisted
C14_Witness ==
    \E t \in Tasks :
        /\ op[t] = "refresh"
        /\ pc[t] = "closing"
        /\ lock = t
        /\ cret[t] = "false"
        /\ SessionUsable(site[t])
        /\ HasCookies(site[t])


(***************************************************************************)
(* C15: ensure_session and refresh_session never raise: a call that has    *)
(* ended has returned True or False, whatever failed inside the login.     *)
(***************************************************************************)
C15_SessionCallsNeverRaise ==
    \A t \in Tasks :
        (op[t] \in {"ensure", "refresh"} /\ pc[t] = "done")
            => ret[t] \in {"true", "false"}


(***************************************************************************)
(* C16: a login that succeeds leaves the session of its site authenticated *)
(* with expiry = time of the login + session TTL and the cookie set of     *)
(* that login persisted; the persisted cookies of a site then stay as they *)
(* are until the next successful login or delete_cookies for the site.     *)
(***************************************************************************)
LoginSucceeds(t) == pc[t] = "form" /\ pc'[t] = "closing" /\ cret'[t] = "true"

C16_LoginPersistsItsCookies ==
    [][/\ \A t \in Tasks :
            LoginSucceeds(t) =>
                LET s == site[t] IN
                /\ s \in (DOMAIN sessions')
                /\ sessions'[s].authenticated
                /\ sessions'[s].expires = now + session_refresh_hours * SecondsPerHour
                /\ s \in (DOMAIN cookie_files')
                /\ cookie_files'[s] = [site |-> s, by |-> t]
       /\ \A s \in Sites :
            (/\ s \in (DOMAIN cookie_files)
             /\ s \in (DOMAIN cookie_files')
             /\ ~\E t \in Tasks : site[t] = s /\ LoginSucceeds(t))
                => cookie_files'[s] = cookie_files[s]]_vars


(***************************************************************************)
(* C17: validate_credentials leaves the persisted site configuration       *)
(* alone; when its login succeeds the cookies are persisted under the site *)
(* id and the session of the site is authenticated, so that an             *)
(* ensure_session for the site has a session or cookies to return True on. *)
(***************************************************************************)
C17_ValidatePersistsAndCaches ==
    [][\A t \in Tasks :
          /\ (call[t] = "validate" /\ pc'[t] # pc[t]) => config' = config
          /\ (call[t] = "validate" /\ LoginSucceeds(t)) =>
                LET s == site[t] IN
                /\ s \in (DOMAIN cookie_files')
                /\ cookie_files'[s] = [site |-> s, by |-> t]
                /\ s \in (DOMAIN sessions')
                /\ sessions'[s].authenticated
                /\ now < sessions'[s].expires]_vars


(***************************************************************************)
(* C18: when delete_cookies(s) has returned, s has no persisted cookie     *)
(* record and no in-memory session entry, the records and sessions of the  *)
(* other sites are as they were, and an ensure_session for s finds neither *)
(* a session nor cookies, so that it has to log in.                        *)
(***************************************************************************)
C18_DeleteForgetsTheSite ==
    [][\A s \in Sites :
          delete_cookies(s) =>
              /\ s \notin (DOMAIN cookie_files')
              /\ s \notin (DOMAIN sessions')
              /\ \A o \in Sites \ {s} :
                    /\ (o \in (DOMAIN cookie_files)) = (o \in (DOMAIN cookie_files'))
                    /\ (o \in (DOMAIN sessions)) = (o \in (DOMAIN sessions'))
                    /\ o \in (DOMAIN cookie_files) => cookie_files'[o] = cookie_files[o]
                    /\ o \in (DOMAIN sessions) => sessions'[o] = sessions[o]]_vars


(***************************************************************************)
(* C19: a search of a site for which no session can be obtained (no        *)
(* persisted cookies, and the login returned False) is answered with an    *)
(* unauthorized condition, not with what an empty result set looks like.   *)
(***************************************************************************)
NoSessionObtained(t) ==
    /\ site[t] \in (DOMAIN config)
    /\ can_search(site[t])
    /\ ~HasCookies(site[t])
    /\ \/ op[t] = "search_tl" /\ srch[t].renewed = "false"
       \/ op[t] = "search_xb" /\ srch[t].fetches = 0 /\ srch[t].exc

C19_NoSessionIsNotAnEmptyResult ==
    \A t \in Tasks :
        (pc[t] = "done" /\ NoSessionObtained(t)) => ret[t] \notin {"empty", "rows"}


SearchKeys == {<<"tmdbId">>, <<"imdbId">>, <<"tvdbId">>, <<"name">>}
Carried(query) == {i \in DOMAIN query : query[i].key \in SearchKeys}
Chosen(a) ==
    IF a.tmdbid # <<>> THEN <<"tmdbId">>
    ELSE IF a.imdbid # <<>> THEN <<"imdbId">>
    ELSE IF a.tvdbid # <<>> THEN <<"tvdbId">>
    ELSE <<"name">>

C11_OneSearchKeyByPriority ==
    (out.called
     /\ (arg.tmdbid # <<>> \/ arg.imdbid # <<>> \/ arg.tvdbid # <<>> \/ arg.q # <<>>))
        => /\ Cardinality(Carried(out.value)) = 1
           /\ \A i \in Carried(out.value) : out.value[i].key = Chosen(arg)


(***************************************************************************)
(* C12: the category of every Torrent a row parser builds is one of the    *)
(* categories the capabilities document advertises, whatever the native    *)
(* category label and the title of the row.                                *)
(***************************************************************************)
C12_CategoryIsAdvertised ==
    out.called =>
        \E i \in DOMAIN create_caps_xml.categories :
            create_caps_xml.categories[i] = out.value


(***************************************************************************)
(* C13: for a size string <number><unit>, the unit one of B, KB, KiB, MB,  *)
(* MiB, GB, GiB, TB, TiB in either case and blanks allowed before it,      *)
(* _parse_size returns number x 1024^k, k = 0..4 for B, K, M, G, T; for a  *)
(* string that does not start with that form it returns 0. Blanks around   *)
(* the string do not count, and the product is rounded down to an integer. *)
(***************************************************************************)
SizeForms ==
    LET numbers == {<<"1">>, <<"1", "5">>, <<"1", ".", "5">>, <<".", "5">>,
                    <<"0", ".", "1">>, <<"1", ".">>}
        units == {<<"B">>, <<"b">>, <<"K", "B">>, <<"k", "b">>, <<"K", "i", "B">>,
                  <<"M", "B">>, <<"M", "i", "B">>, <<"G", "B">>, <<"G", "i", "B">>,
                  <<"T", "B">>, <<"T", "i", "B">>}
    IN  {[text |-> n \o [i \in 1..b |-> " "] \o u, number |-> n, unit |-> u] :
            n \in numbers, b \in 0..MaxBlanks, u \in units}
ExpectedSize(f) ==
    LET digits == SelectSeq(f.number, IsDigit)
        point == IF \E i \in DOMAIN f.number : f.number[i] = "."
                 THEN CHOOSE i \in DOMAIN f.number : f.number[i] = "."
                 ELSE Len(f.number)
        k == CASE f.unit[1] \in {"K", "k"} -> 1 [] f.unit[1] = "M" -> 2
               [] f.unit[1] = "G" -> 3 [] f.unit[1] = "T" -> 4 [] OTHER -> 0
        q == divide(<<digits_value(digits)>> \o [i \in 1..k |-> 0],
                    10 ^ (Len(f.number) - point), 0)
    IN  IF q[1] = 0 THEN Tail(q) ELSE q
Unblank(x) ==
    LET first == IF \E i \in DOMAIN x : x[i] # " "
                 THEN CHOOSE i \in DOMAIN x : x[i] # " " /\ \A j \in 1..(i - 1) : x[j] = " "
                 ELSE Len(x) + 1
    IN  SubSeq(x, first, Len(x))

C13_ParseSizeByUnit ==
    out.called =>
        LET x == Unblank(arg) IN
        /\ \A f \in SizeForms :
              (\E b \in 0..MaxBlanks : x = f.text \o [i \in 1..b |-> " "])
                 => out = Returned(ExpectedSize(f))
        /\ (~\E f \in SizeForms :
                Len(f.text) <= Len(x) /\ SubSeq(x, 1, Len(f.text)) = f.text)
             => out = Returned(<<>>)


(***************************************************************************)
(* Claims about the passes of the session scheduler.                       *)
(***************************************************************************)
\* the entry of site s is one the pass that has just read the clock has to
\* renew: its minute is the current one, the site is configured and enabled
MustRenew(s) ==
    /\ s \in (DOMAIN scheduled_times')
    /\ current_minute' = replace_second(scheduled_times'[s])
    /\ s \in (DOMAIN config)
    /\ config[s].enabled

\* C21: refresh_session is invoked only for a site that is in the
\* configuration and enabled at that moment; an entry whose minute is reached
\* while its site is disabled or removed is passed over without ending the
\* pass, and the entries that are due in the same pass are still processed.
C21_SkipsDisabledAndRemoved ==
    [][/\ \A s \in Sites :
             renewed'[s] # renewed[s]
             => /\ s \in (DOMAIN config)
                /\ config[s].enabled
                /\ renewed'[s] = renewed[s] + 1
       /\ Tick => /\ loop' \in {"renewing", "sleeping"}
                  /\ \A s \in Sites :
                        MustRenew(s) => \E i \in 1..Len(pending') : pending'[i] = s
                  /\ (\E s \in Sites : MustRenew(s)) => loop' = "renewing"]_vars

\* the minute of torrentland is reached while it is disabled or removed: it
\* is passed over and xbytesv2, due in the same pass, is being renewed
C21_Witness ==
    /\ loop = "renewing"
    /\ pending = <<"xbytesv2">>
    /\ "torrentland" \in (DOMAIN scheduled_times)
    /\ current_minute = replace_second(scheduled_times["torrentland"])
    /\ renewed["torrentland"] = 0
    /\ renewed["xbytesv2"] = 1
    /\ \/ "torrentland" \notin (DOMAIN config)
       \/ ~config["torrentland"].enabled


\* the minute of the day of a time
MinuteOfDay(tm) == tm.hour * 60 + tm.minute

\* a pass has read the clock before this one, in the same run of the loop
PassedBefore == current_minute.hour >= RenewalHour - 1

\* C22: a renewal that fails or raises does not end the loop and keeps no
\* other site from being renewed: the sites due in the same pass are still
\* renewed, and while renewals fail no scheduled minute of a configured and
\* enabled site goes by without a pass that renews it.
C22_FailureDoesNotStopRenewals ==
    [][/\ (\E d \in RenewDurations : RenewEnd("false", d) \/ RenewEnd("raised", d))
          => /\ running'
             /\ loop' \in {"renewing", "sleeping"}
             /\ \A i \in 2..Len(pending) :
                   due(pending[i], current_minute, scheduled_times)
                   => \E j \in 1..Len(pending') : pending'[j] = pending[i]
       /\ (Tick /\ PassedBefore /\ sessions = <<>>)
          => \A s \in (DOMAIN scheduled_times) \cap (DOMAIN config) :
                config[s].enabled
                => ~(/\ MinuteOfDay(current_minute) < MinuteOfDay(scheduled_times[s])
                     /\ MinuteOfDay(scheduled_times[s]) < MinuteOfDay(current_minute'))]_vars


\* a time of day from 08:00:00 to 08:59:59
InMorningWindow(tm) ==
    /\ tm.hour = 8
    /\ tm.minute \in 0..59
    /\ tm.second \in 0..59

\* C29: a pass of the loop leaves every site of the configuration with a
\* schedule entry whose time lies from 08:00:00 to 08:59:59, and no step
\* changes or removes an entry once it is assigned.
C29_EntriesAreAssignedOnce ==
    [][/\ Tick => \A s \in (DOMAIN config) :
                     /\ s \in (DOMAIN scheduled_times')
                     /\ InMorningWindow(scheduled_times'[s])
       /\ \A s \in (DOMAIN scheduled_times) :
             /\ s \in (DOMAIN scheduled_times')
             /\ scheduled_times'[s] = scheduled_times[s]]_vars

\* several passes after the start both sites are configured and hold
\* entries of different minutes, and xbytesv2 has been renewed in its own
C29_Witness ==
    /\ loop = "sleeping"
    /\ DOMAIN config = Sites
    /\ DOMAIN scheduled_times = Sites
    /\ scheduled_times["torrentland"].minute = 0
    /\ scheduled_times["xbytesv2"].minute = 1
    /\ current_minute = replace_second(scheduled_times["xbytesv2"])
    /\ renewed["xbytesv2"] = 1


(***************************************************************************)
(* Claims about start() and stop() of the session scheduler.               *)
(***************************************************************************)
\* how many of the loop tasks ts are live
LiveTasks(ts) == Cardinality({i \in 1..Len(ts) : ts[i] = "live"})

\* no call of stop() is in progress and the scheduler is stopped
Stopped == ~running /\ stopping = "no"

\* C23: whatever calls of start() and stop() are made one after the other,
\* at most one loop task is live; when stop() has returned the loop task is
\* over and holds no lock, and no renewal is issued while the scheduler is
\* stopped, until the next start().
C23_AtMostOneLoopTask ==
    [][/\ LiveTasks(tasks') <= 1
       /\ (~running' /\ stopping' = "no")
          => /\ LiveTasks(tasks') = 0
             /\ loop' \in {"none", "cancelled", "ended"}
             /\ lock' = NoTask
       /\ Stopped => renewed' = renewed]_vars

\* stop() has returned once and a later start() has created the second loop
\* task, which is renewing a site
C23_Witness ==
    /\ tasks = <<"over", "live">>
    /\ running
    /\ loop = "renewing"


(***************************************************************************)
(* Claims about the concurrency of searches and logins.                    *)
(***************************************************************************)
\* C24: while another task holds the lock of the Session Manager for a
\* login, a search for a site whose cookies are persisted, which has not
\* made its fetch yet, is not waiting for that lock.
C24_SearchNeverWaitsForLock ==
    \A t \in Tasks :
        (/\ op[t] \in Searches
         /\ srch[t].fetches = 0
         /\ site[t] \in (DOMAIN cookie_files)
         /\ lock \in Tasks \ {t}
         /\ pc[lock] \in {"login", "form"})
        => pc[t] # "ens_wait"


\* C25: whatever the interleaving of logins, credential validations and
\* browser searches, the browser engine is launched at most once and every
\* caller that holds a browser holds the one of that launch.
C25_BrowserLaunchedOnce ==
    /\ Len(launched) <= 1
    /\ \A t \in Tasks : pc[t] = "using" => ret[t] = launched[1]


(***************************************************************************)
(* Claims about the rows of a results page.                                *)
(***************************************************************************)
\* the places of the well-formed rows of a page, in document order
RECURSIVE WellFormed(_, _)
WellFormed(rows, i) ==
    IF i > Len(rows) THEN <<>>
    ELSE (IF rows[i] = "ok" THEN <<i>> ELSE <<>>) \o WellFormed(rows, i + 1)

\* C26: a search returns the first limit rows that parse, in document
\* order: the rows that give no record do not count against the limit.
C26_LimitCountsParsedRows ==
    out.called => out.value = slice_to(WellFormed(arg.rows, 1), arg.limit)

\* C27: among the rows the search goes through, a row without title link
\* or torrent id, or whose parsing raises, gives no record and every
\* well-formed row gives one, in the order of the page.
C27_BadRowsAreSkipped ==
    out.called
    => /\ out.value = WellFormed(slice_to(arg.rows, arg.limit), 1)
       /\ \A i \in 1..Len(out.value) : arg.rows[out.value[i]] = "ok"

\* a row whose parsing raises stands between two well-formed rows and both
\* are returned
C27_Witness ==
    /\ out.called
    /\ arg.rows = <<"ok", "raises", "ok">>
    /\ arg.limit = 3
    /\ out.value = <<1, 3>>


(***************************************************************************)
(* Claims about the links of the feed.                                     *)
(***************************************************************************)
\* the download URL of the bridge for torrent torrent_id of site s
DownloadUrl(s, torrent_id) == <<"feederr", "api", "v1", "download", s, torrent_id>>

\* C28: every item of a search response has as link and as enclosure the
\* download URL of the bridge for the site searched and the tracker id of
\* its record, the second part of the guid, which is an id of a torrent of
\* the tracker; it is not the download URL the record holds.
C28_LinksAreBridgeDownloads ==
    (response.status = 200 /\ response.via \in {"search", "placeholder"})
    => \A i \in 1..Len(response.items) :
          /\ response.items[i].link =
                DownloadUrl(request.indexer, response.torrents[i].guid[2])
          /\ response.items[i].enclosure = response.items[i].link
          /\ response.items[i].link # response.torrents[i].download_url
          /\ \E k \in 1..Len(TorrentIds) : response.items[i].link[6] = TorrentIds[k]


(***************************************************************************)
(* Claims about the removal of a site.                                     *)
(***************************************************************************)
\* C30: when a site has been removed and no call of the Session Manager is
\* in progress any more, the site has no cookie file and no session.
C30_RemovedSiteLeavesNothing ==
    \A s \in Sites :
        (/\ s \notin (DOMAIN config)
         /\ \A t \in Tasks : pc[t] \in {"idle", "done"})
        => /\ s \notin (DOMAIN cookie_files)
           /\ s \notin (DOMAIN sessions)

(***************************************************************************)
(* Claims about the order of the checks of ensure_session.                 *)
(***************************************************************************)
\* the session of site s is authenticated and its expiry lies ahead
Fresh(s) ==
    IF s \in (DOMAIN sessions)
    THEN sessions[s].authenticated /\ now < sessions[s].expires
    ELSE FALSE

\* C31: when an ensure_session call gets past the lock, it enters the login
\* procedure only if the site has neither a session that is authenticated
\* and unexpired nor a persisted cookie record; with such a session it
\* returns True and leaves the session as it is; without one but with
\* persisted cookies it records a session that is authenticated and expires
\* session_refresh_hours from now and returns True, entering no login and
\* leaving the cookie record as it is.
C31_CacheThenCookiesThenLogin ==
    [][\A t \in Tasks :
          (op[t] = "ensure" /\ pc[t] = "ens_wait" /\ pc'[t] # "ens_wait")
          => LET s == site[t] IN
             /\ pc'[t] = "login" <=> (~Fresh(s) /\ s \notin (DOMAIN cookie_files))
             /\ Fresh(s)
                => /\ pc'[t] = "done" /\ ret'[t] = "true"
                   /\ sessions' = sessions
             /\ (~Fresh(s) /\ s \in (DOMAIN cookie_files))
                => /\ pc'[t] = "done" /\ ret'[t] = "true"
                   /\ s \in (DOMAIN sessions')
                   /\ sessions'[s].authenticated
                   /\ sessions'[s].expires = now + session_refresh_hours * SecondsPerHour
                   /\ \A x \in (DOMAIN sessions') \ {s} :
                         x \in (DOMAIN sessions) /\ sessions'[x] = sessions[x]
                   /\ cookie_files' = cookie_files
                   /\ lock' = lock]_vars

\* an ensure_session call has returned True, later than the start of the run,
\* for a site whose cookie record is the one an earlier run of the process
\* left and whose session was recorded at this very instant
C31_Witness ==
    \E t \in Tasks :
        /\ op[t] = "ensure" /\ pc[t] = "done" /\ ret[t] = "true"
        /\ site[t] \in (DOMAIN cookie_files)
        /\ cookie_files[site[t]] = OldJar(site[t])
        /\ now > 0
        /\ site[t] \in (DOMAIN sessions)
        /\ sessions[site[t]].expires = now + session_refresh_hours * SecondsPerHour

(***************************************************************************)
(* Claims about the renewals the scheduler owes.                           *)
(***************************************************************************)
\* C32: while the loop task created by the first start() runs and has not
\* been stopped, every site that is configured and enabled, and whose
\* scheduled minute lies before the minute the latest pass has read from the
\* clock, has had refresh_session called for it.
C32_EveryDueSiteIsRenewed ==
    \A s \in (DOMAIN scheduled_times) \cap (DOMAIN config) :
        (/\ tasks = <<"live">>
         /\ running
         /\ stopping = "no"
         /\ config[s].enabled
         /\ MinuteOfDay(scheduled_times[s]) < MinuteOfDay(current_minute))
        => renewed[s] >= 1

(***************************************************************************)
(* Claims about the category filter.                                       *)
(***************************************************************************)
\* the native codes the mapping is said to give one protocol category
NativeOf(cat) ==
    CASE cat \in {"2000", "2030", "2040", "2050"} -> {"1"}
      [] cat \in {"5000", "5030", "5040", "5050"} -> {"2"}
      [] cat = "5070" -> {"3", "4"}
      [] OTHER -> {}

\* C33: the mapping of a filter is the set of the native codes of its
\* categories (1 for a movie category, 2 for a TV category, 3 and 4 for the
\* anime category), and {1, 2} when that set is empty.
C33_CategoriesMapToNativeCodes ==
    out.called
    => LET mapped == UNION {NativeOf(arg[i]) : i \in DOMAIN arg} IN
       out.value = IF mapped = {} THEN {"1", "2"} ELSE mapped

(***************************************************************************)
(* Claims about the language markers of a title.                           *)
(***************************************************************************)
\* a lexeme made of letters
IsLetters(c) == c \notin {" ", "/"}

\* the words of a title: its longest runs of letters, in order
RECURSIVE WordsOf(_)
WordsOf(t) ==
    IF t = <<>> THEN <<>>
    ELSE IF ~IsLetters(Head(t)) THEN WordsOf(Tail(t))
    ELSE LET n == CHOOSE k \in 1..Len(t) :
                     /\ \A i \in 1..k : IsLetters(t[i])
                     /\ (k = Len(t) \/ ~IsLetters(t[k + 1]))
         IN  <<SubSeq(t, 1, n)>> \o WordsOf(SubSeq(t, n + 1, Len(t)))

\* C34: the words of the title returned are the words of the title of the
\* torrent, without the words ING and ENG and with SPANiSH in the place of
\* the words ESP, SPA and CAST; every other word is there as it was.
C34_OnlyMarkersAreRewritten ==
    out.called
    => LET kept == SelectSeq(WordsOf(arg), LAMBDA w : w \notin {<<"ING">>, <<"ENG">>})
       IN  WordsOf(out.value) =
              [i \in DOMAIN kept |->
                  IF kept[i] \in {<<"ESP">>, <<"SPA">>, <<"CAST">>}
                  THEN <<"SPANiSH">> ELSE kept[i]]

C36_AuthenticatedHasCookies ==
    \A s \in (DOMAIN sessions) :
        sessions[s].authenticated => s \in (DOMAIN cookie_files)

(***************************************************************************)
(* Claims about the resources of a search.                                 *)
(***************************************************************************)
\* C37: when a search call has returned, none of the browser contexts, pages
\* and HTTP clients it opened is still open.
C37_SearchClosesWhatItOpened ==
    \A t \in Tasks :
        (op[t] \in {"search_tl", "search_xb"} /\ pc[t] = "done")
        => srch[t].open = 0

(***************************************************************************)
(* Claims about the sites that must not be contacted.                      *)
(***************************************************************************)
\* site s is disabled, or the clock is outside the time window of s
Suppressed(s) ==
    \/ s \notin (DOMAIN config)
    \/ ~config[s].enabled
    \/ LET tr == config[s].time_restrictions
           clock == now % SecondsPerDay
       IN  /\ tr.enabled
           /\ tr.start_time # None /\ tr.end_time # None
           /\ IF tr.start_time <= tr.end_time
              THEN clock < tr.start_time \/ clock > tr.end_time
              ELSE clock < tr.start_time /\ clock > tr.end_time

\* C38 (as stated): whenever the search or the download of a request
\* contacts the tracker (to fetch, to log in or to renew the session), its
\* site is enabled and inside its time window at that moment.
C38_NoContactWhileSuppressed ==
    [][(scraper # "none" /\ scraper' = "none") => ~Suppressed(request.indexer)]_vars

\* C38 (amended): a request of any of the three endpoints that arrives while
\* its site is disabled or outside its time window is answered at once and
\* awaits nothing, and the tracker is contacted only by what a request
\* awaits: a request that arrives then starts no fetch, no login and no
\* session renewal.
C38_SuppressedRequestAwaitsNothing ==
    [][/\ (request = NoRequest /\ request' # NoRequest /\ Suppressed(request'.indexer))
          => (scraper' = "none" /\ response' # NoResponse)
       /\ (sessions' # sessions \/ (found' # found /\ found' # <<>>)) => scraper # "none"]_vars

\* a download request for a configured site that is disabled or outside its
\* window has been refused
C38_Witness ==
    /\ request.t = "download"
    /\ request.indexer \in (DOMAIN config)
    /\ Suppressed(request.indexer)
    /\ response.status = 403
    /\ scraper = "none"

(***************************************************************************)
(* Claims about the separation of the sites.                               *)
(***************************************************************************)
\* C39: a search on a configured site X renews only the session of X and
\* labels its records with indexer X and guid prefix X: the session of no
\* other site is changed by it.
C39_SearchStaysOnItsSite ==
    [][(scraper # "none" /\ scraper' = "none" /\ request.t # "download")
        => /\ \A s \in DOMAIN sessions' :
                s # request.indexer => (s \in (DOMAIN sessions) /\ sessions'[s] = sessions[s])
           /\ \A i \in DOMAIN found' :
                /\ found'[i].indexer = request.indexer
                /\ found'[i].guid[1] = request.indexer]_vars

(***************************************************************************)
(* Claims about the lock of the Session Manager.                           *)
(***************************************************************************)
\* task t is inside ensure_session or refresh_session
InCall(t) == call[t] \in {"ensure", "refresh"}

\* C40: the lock is taken only when it is free, hence never by the task that
\* holds it; a task holds it only inside ensure_session or refresh_session
\* and no longer when the call has ended, whether it returned, raised or was
\* cancelled in a renewal; and, every login attempt coming to an end, every
\* pending ensure_session or refresh_session call ends.
C40_LockReleasedAndCallsReturn ==
    /\ [][/\ (lock' # lock /\ lock' # NoTask) => lock = NoTask
          /\ \A t \in Tasks : (InCall(t) /\ ~InCall(t)') => lock' # t]_vars
    /\ [](\A t \in Tasks : lock = t => InCall(t))
    /\ \A t \in Tasks : InCall(t) ~> ~InCall(t)

\* the task that ran refresh_session was cancelled while it held the lock
\* and the other task waited for it: the lock is free and the cancelled call
\* has ended
C40_Witness ==
    /\ op["t2"] = "refresh" /\ pc["t2"] = "done" /\ ret["t2"] = "cancelled"
    /\ lock = NoTask
    /\ pc["t1"] = "ens_wait"

====
